---------------------------- MODULE Spec2Model ----------------------------
(***************************************************************************)
(* Risk gate, approval queue and execution engine of class-trader          *)
(* (backend/app/execution), with the database sessions and the broker      *)
(* they run against.                                                       *)
(*                                                                         *)
(* Representation.  Confidence and position size are whole percents        *)
(* (0.65 is 65), prices and allocations are given in cents (75.0 dollars   *)
(* is 7500), quantities are whole shares, and the amounts the code         *)
(* computes (order dollars, cost basis, realized P&L, loss limits) are     *)
(* Python floats, IEEE-754 doubles.  A date is a record [y, m, d].  A      *)
(* datetime.now() value is the identity of the call that produced it.      *)
(*                                                                         *)
(* Database.  Every request and the pipeline run own one AsyncSession      *)
(* (database.py get_db, pipeline.py run_pipeline_background): one          *)
(* transaction, READ COMMITTED.  `committed` is the database as other      *)
(* sessions see it, `overlay[t]` the rows session t has flushed and not    *)
(* yet committed; a row flushed by one session is locked against the       *)
(* UPDATE of another until the first commits or rolls back.                *)
(*                                                                         *)
(* Steps.  Code between two awaits runs without interleaving (asyncio), so *)
(* an action is one awaited operation together with the local code that    *)
(* follows it up to the next await.                                        *)
(***************************************************************************)
EXTENDS Integers, Sequences, FiniteSets, TLC

VARIABLES
    committed,      \* the committed database: a record of tables
    overlay,        \* overlay[t]: rows flushed by session t, not yet committed
    task,           \* task[t]: position and locals of coroutine t
    auto_approve,   \* runtime_config._auto_approve
    broker,         \* per order: submissions, status queries, cancels (history)
    out,            \* notifications and websocket events emitted, per trade
    audit,          \* what the risk gate decided per trade (history)
    today           \* date.today()

vars == <<committed, overlay, task, auto_approve, broker, out, audit, today>>

----------------------------------------------------------------------------
(* Bounds of the model *)

NumTrades == 2          \* trade decisions one pipeline run persists
NumRequests == 2        \* approve / reject requests served
MaxPositions == 2       \* rows of the positions table
MaxWashSales == 2       \* rows of the wash_sales table
MaxEvents == 2          \* rows of the circuit_breaker_events table
MaxHeld == 4            \* shares the ledger runs hold at most
MaxFills == 3           \* fills a ledger run applies

(* Program constants *)

_POLL_INTERVAL_SEC == 2
_POLL_TIMEOUT_SEC == 90
MinConfidenceMain == 65
MinConfidencePenny == 60
MaxPositionPctMain == 30
MaxPositionsMain == 8
MaxPositionsPenny == 5
ManualSizePct == 30
AutoApproveConfMain == 70
AutoApproveConfPenny == 60
MainSleeveAllocation == 7500
PennySleeveAllocation == 2500
MaxPositionDollarsPenny == 800
DailyLossLimitMainPct == 5
DailyLossLimitPennyPct == 15
WashSaleWindowDays == 30

TradeIds == 1..NumTrades
Requests == 1..NumRequests      \* the sessions of approve / reject requests
Tasks == 0..NumRequests         \* task 0 is the pipeline run
IsPipeline(t) == t = 0
PosIds == 1..MaxPositions
WashIds == 1..MaxWashSales
EventIds == 1..MaxEvents
ExecIds == Tasks \X TradeIds

Sleeves == {"MAIN", "PENNY"}
NoSleeve == "NONE"      \* CircuitBreakerEvent.sleeve IS NULL: system-wide

----------------------------------------------------------------------------
(* Python floats: IEEE-754 binary64, round to nearest, ties to even.
   A float is [s, m, e] of value s * m * 2^e with 2^52 <= m < 2^53, or zero
   (m empty). m is a natural number in limbs of 15 bits, lowest limb first,
   because 53 bits do not fit a machine integer of the checker. *)

RECURSIVE BigCarry(_, _)
BigCarry(a, carry) ==
    IF a = <<>>
    THEN IF carry = 0 THEN <<>>
         ELSE <<carry % 32768>> \o BigCarry(<<>>, carry \div 32768)
    ELSE <<(Head(a) + carry) % 32768>>
            \o BigCarry(Tail(a), (Head(a) + carry) \div 32768)

RECURSIVE BigNorm(_)
BigNorm(a) ==
    IF a # <<>> /\ a[Len(a)] = 0 THEN BigNorm(SubSeq(a, 1, Len(a) - 1)) ELSE a

BigLimb(a, i) == IF i <= Len(a) THEN a[i] ELSE 0

BigAdd(a, b) ==
    BigCarry([i \in 1..(IF Len(a) > Len(b) THEN Len(a) ELSE Len(b)) |->
                BigLimb(a, i) + BigLimb(b, i)], 0)

BigMulSmall(a, k) == BigNorm(BigCarry([i \in 1..Len(a) |-> a[i] * k], 0))

RECURSIVE BigMul(_, _)
BigMul(a, b) ==
    IF a = <<>> \/ b = <<>> THEN <<>>
    ELSE LET rest == BigMul(a, Tail(b))
         IN  BigAdd(BigMulSmall(a, Head(b)),
                    IF rest = <<>> THEN <<>> ELSE <<0>> \o rest)

RECURSIVE BigBorrow(_, _, _)
BigBorrow(a, b, borrow) ==
    IF a = <<>> THEN <<>>
    ELSE LET d == Head(a) - BigLimb(b, 1) - borrow
         IN  <<d % 32768>> \o BigBorrow(Tail(a), IF b = <<>> THEN <<>> ELSE Tail(b),
                                        IF d < 0 THEN 1 ELSE 0)

(* a - b for a >= b *)
BigSub(a, b) == BigNorm(BigBorrow(a, b, 0))

RECURSIVE BigLe(_, _)
BigLe(a, b) ==
    IF Len(a) # Len(b) THEN Len(a) < Len(b)
    ELSE IF a = <<>> THEN TRUE
    ELSE IF a[Len(a)] # b[Len(b)] THEN a[Len(a)] < b[Len(b)]
    ELSE BigLe(SubSeq(a, 1, Len(a) - 1), SubSeq(b, 1, Len(b) - 1))

(* a * 2^s *)
BigShl(a, s) ==
    IF a = <<>> THEN <<>>
    ELSE [i \in 1..(s \div 15) |-> 0] \o BigMulSmall(a, 2^(s % 15))

(* the limbs of a, highest first, divided by k *)
RECURSIVE BigDivSmall(_, _, _)
BigDivSmall(a, k, rem) ==
    IF a = <<>> THEN <<>>
    ELSE BigDivSmall(Tail(a), k, (rem * 32768 + Head(a)) % k)
            \o <<(rem * 32768 + Head(a)) \div k>>

(* a \div 2^s *)
BigShr(a, s) ==
    LET kept == SubSeq(a, (s \div 15) + 1, Len(a))
    IN  BigNorm(BigDivSmall([i \in 1..Len(kept) |-> kept[Len(kept) + 1 - i]],
                            2^(s % 15), 0))

BigBits(a) ==
    IF a = <<>> THEN 0
    ELSE 15 * (Len(a) - 1)
            + CHOOSE k \in 1..15 : 2^(k - 1) <= a[Len(a)] /\ a[Len(a)] < 2^k

RECURSIVE BigToInt(_)
BigToInt(a) == IF a = <<>> THEN 0 ELSE Head(a) + 32768 * BigToInt(Tail(a))

FZero == [s |-> 1, m |-> <<>>, e |-> 0]

(* Round to nearest, ties to even: does the cut-off remainder r round q up? *)
RoundsUp(q, r, half) == IF r = half THEN q[1] % 2 = 1 ELSE ~BigLe(r, half)

(* A mantissa that rounding carried to 2^53 is 2^52 with the next exponent *)
Renormalized(s, m, e) ==
    IF BigBits(m) = 54 THEN [s |-> s, m |-> BigShr(m, 1), e |-> e + 1]
    ELSE [s |-> s, m |-> m, e |-> e]

(* N without its lowest `drop` bits (q) and rounded *)
RoundedOff(s, N, e, drop, q) ==
    Renormalized(s, IF RoundsUp(q, BigSub(N, BigShl(q, drop)), BigShl(<<1>>, drop - 1))
                    THEN BigAdd(q, <<1>>) ELSE q, e + drop)

(* N of L bits as a mantissa of 53 bits *)
RoundBits(s, N, e, L) ==
    IF L = 0 THEN FZero
    ELSE IF L <= 53 THEN [s |-> s, m |-> BigShl(N, 53 - L), e |-> e - (53 - L)]
    ELSE RoundedOff(s, N, e, L - 53, BigShr(N, L - 53))

(* The float nearest to s * N * 2^e *)
RoundTo53(s, N, e) == RoundBits(s, N, e, BigBits(N))

(* The largest g with g * D <= R, counted down from an estimate not below it *)
RECURSIVE DigitFix(_, _, _)
DigitFix(R, D, g) ==
    IF BigLe(BigMulSmall(D, g), R) THEN g ELSE DigitFix(R, D, g - 1)

(* floor(R / D) for R < D * 2^15 and D of four limbs, the highest >= 2^14: the
   estimate from the two highest limbs of R is at most 2 too large *)
Digit(R, D) ==
    LET est == (BigLimb(R, 5) * 32768 + BigLimb(R, 4)) \div D[4]
    IN  DigitFix(R, D, IF est > 32767 THEN 32767 ELSE est)

(* 2 * floor(R * 2^(15 k) / D) for R < D, plus 1 when the division is inexact *)
RECURSIVE LongDiv(_, _, _)
RECURSIVE LongDivDigit(_, _, _, _)
LongDiv(R, D, k) ==
    IF k = 0 THEN (IF R = <<>> THEN <<>> ELSE <<1>>)
    ELSE LongDivDigit(BigShl(R, 15), D, k, Digit(BigShl(R, 15), D))

LongDivDigit(shifted, D, k, g) ==
    BigAdd(BigShl(BigCarry(<<>>, g), 15 * (k - 1) + 1),
           LongDiv(BigSub(shifted, BigMulSmall(D, g)), D, k - 1))

(* float(i) of an int *)
Float(i) == RoundTo53(IF i < 0 THEN -1 ELSE 1, BigCarry(<<>>, IF i < 0 THEN -i ELSE i), 0)

FNeg(x) == IF x.m = <<>> THEN x ELSE [x EXCEPT !.s = -x.s]

FMul(x, y) == RoundTo53(x.s * y.s, BigMul(x.m, y.m), x.e + y.e)

(* n / d * 2^e for mantissas n and d scaled to four full limbs *)
FDivScaled(s, n, d, e) ==
    RoundTo53(s, BigAdd(IF BigLe(d, n) THEN BigShl(<<1>>, 61) ELSE <<>>,
                        LongDiv(IF BigLe(d, n) THEN BigSub(n, d) ELSE n, d, 4)), e)

(* x / y for y # 0 *)
FDiv(x, y) ==
    IF x.m = <<>> THEN FZero
    ELSE FDivScaled(x.s * y.s, BigShl(x.m, 7), BigShl(y.m, 7), x.e - y.e - 61)

(* sa * a * 2^e + sb * b * 2^e *)
FAddAligned(sa, a, sb, b, e) ==
    RoundTo53(IF sa = sb \/ BigLe(b, a) THEN sa ELSE sb,
              IF sa = sb THEN BigAdd(a, b)
              ELSE IF BigLe(b, a) THEN BigSub(a, b) ELSE BigSub(b, a), e)

FAdd(x, y) ==
    LET e == IF x.e < y.e THEN x.e ELSE y.e
    IN  IF x.m = <<>> THEN y
        ELSE IF y.m = <<>> THEN x
        ELSE FAddAligned(x.s, BigShl(x.m, x.e - e), y.s, BigShl(y.m, y.e - e), e)

FSub(x, y) == FAdd(x, FNeg(y))

(* max(0.0, x) *)
FMax0(x) == IF x.s < 0 THEN FZero ELSE x

(* |x| < |y| *)
FMagLt(x, y) ==
    IF y.m = <<>> THEN FALSE
    ELSE IF x.m = <<>> THEN TRUE
    ELSE IF x.e # y.e THEN x.e < y.e
    ELSE x.m # y.m /\ BigLe(x.m, y.m)

FLt(x, y) ==
    IF x.s # y.s THEN x.s < y.s
    ELSE IF x.s = 1 THEN FMagLt(x, y) ELSE FMagLt(y, x)

(* min(x, y) of Python: y only when y < x *)
FMin(x, y) == IF FLt(y, x) THEN y ELSE x

(* int(x): truncation toward zero *)
FTrunc(x) ==
    IF x.m = <<>> \/ x.e < -52 THEN 0 ELSE x.s * BigToInt(BigShr(x.m, -x.e))

(* A decimal amount of whole cents as the float of its dollars *)
Dollars(cents) == FDiv(Float(cents), Float(100))

----------------------------------------------------------------------------
(* Dates: datetime.date, compared and advanced as the calendar does *)

Date(y, m, d) == [y |-> y, m |-> m, d |-> d]
NoDate == [y |-> 0, m |-> 0, d |-> 0]

IsLeap(y) == (y % 4 = 0 /\ y % 100 # 0) \/ y % 400 = 0

DaysInMonth(y, m) ==
    IF m = 2 THEN (IF IsLeap(y) THEN 29 ELSE 28)
    ELSE IF m \in {4, 6, 9, 11} THEN 30 ELSE 31

NextDay(dt) ==
    IF dt.d < DaysInMonth(dt.y, dt.m) THEN Date(dt.y, dt.m, dt.d + 1)
    ELSE IF dt.m < 12 THEN Date(dt.y, dt.m + 1, 1)
    ELSE Date(dt.y + 1, 1, 1)

RECURSIVE AddDays(_, _)
AddDays(dt, k) == IF k = 0 THEN dt ELSE AddDays(NextDay(dt), k - 1)

DateLe(a, b) ==
    \/ a.y < b.y
    \/ a.y = b.y /\ a.m < b.m
    \/ a.y = b.y /\ a.m = b.m /\ a.d <= b.d

----------------------------------------------------------------------------
(* Tables and sessions *)

NoRow == [absent |-> TRUE]      \* no row under this key
Unset == [unset |-> TRUE]       \* the session has not written this key
NoTime == [task |-> -1, id |-> 0, site |-> "none"]

Now(t, id, site) == [task |-> t, id |-> id, site |-> site]

Tables == {"trade_decisions", "executions", "positions", "wash_sales",
           "circuit_breaker_events"}

Keys(tbl) ==
    CASE tbl = "trade_decisions" -> TradeIds
      [] tbl = "executions" -> ExecIds
      [] tbl = "positions" -> PosIds
      [] tbl = "wash_sales" -> WashIds
      [] tbl = "circuit_breaker_events" -> EventIds

EmptyOverlay == [tbl \in Tables |-> [k \in Keys(tbl) |-> Unset]]

(* What session t reads: the committed rows, its own flushed rows on top *)
View(t) ==
    [tbl \in Tables |->
        [k \in Keys(tbl) |->
            IF overlay[t][tbl][k] # Unset THEN overlay[t][tbl][k]
            ELSE committed[tbl][k]]]

(* The row is flushed by another session that has not committed *)
Locked(t, tbl, k) == \E u \in Tasks \ {t} : overlay[u][tbl][k] # Unset

(* The newest version of a row, committed or not *)
Latest(tbl, k) ==
    IF \E u \in Tasks : overlay[u][tbl][k] # Unset
    THEN overlay[CHOOSE u \in Tasks : overlay[u][tbl][k] # Unset][tbl][k]
    ELSE committed[tbl][k]

(* Keys no session and no committed row uses: where an INSERT lands *)
FreeKeys(tbl) ==
    {k \in Keys(tbl) :
        /\ committed[tbl][k] = NoRow
        /\ \A u \in Tasks : overlay[u][tbl][k] = Unset}

----------------------------------------------------------------------------
(* risk_manager.py, wash_sale_tracker.py: the reads of the risk gate *)

NoVal == [s |-> 0, m |-> <<>>, e |-> 0]     \* a NULL amount

Rows(db, tbl) == {k \in Keys(tbl) : db[tbl][k] # NoRow}

(* A query that misses the system-wide events: C10 must not hold with it *)
BreakerOfSleeveOnly(db, sleeve) ==
    \E e \in Rows(db, "circuit_breaker_events") :
        /\ db["circuit_breaker_events"][e].is_active
        /\ db["circuit_breaker_events"][e].sleeve = sleeve

(* `if sleeve:` narrows the query to the sleeve's and the system-wide events *)
is_circuit_breaker_active(db, sleeve) ==
    \E e \in Rows(db, "circuit_breaker_events") :
        LET ev == db["circuit_breaker_events"][e]
        IN  /\ ev.is_active
            /\ (sleeve # NoSleeve => (ev.sleeve = sleeve \/ ev.sleeve = NoSleeve))

(* A hard block that forgets the rebought flag: C14 must not hold with it *)
WashBlockedThoughRebought(db, ticker) ==
    \E w \in Rows(db, "wash_sales") :
        LET ws == db["wash_sales"][w]
        IN  /\ ws.ticker = ticker
            /\ ws.is_year_end_blocked
            /\ DateLe(today, ws.blackout_until)

is_wash_sale_blocked(db, ticker) ==
    \E w \in Rows(db, "wash_sales") :
        LET ws == db["wash_sales"][w]
        IN  /\ ws.ticker = ticker
            /\ ws.is_year_end_blocked
            /\ DateLe(today, ws.blackout_until)
            /\ ~ws.rebought

(* The rows get_active_wash_sale may return: ORDER BY sale_date DESC, first();
   among rows of the same sale_date the database picks *)
get_active_wash_sale(db, ticker) ==
    LET act == {w \in Rows(db, "wash_sales") :
                    /\ db["wash_sales"][w].ticker = ticker
                    /\ DateLe(today, db["wash_sales"][w].blackout_until)
                    /\ ~db["wash_sales"][w].rebought}
    IN  {w \in act : \A v \in act :
            DateLe(db["wash_sales"][v].sale_date, db["wash_sales"][w].sale_date)}

RiskCheckResult(allowed, reason, manual, flag, notes) ==
    [allowed |-> allowed, blocked_reason |-> reason,
     requires_manual_approval |-> manual, wash_sale_flag |-> flag, notes |-> notes]

Denied(reason) == RiskCheckResult(FALSE, reason, FALSE, FALSE, <<>>)

MinConf(sleeve) == IF sleeve = "PENNY" THEN MinConfidencePenny ELSE MinConfidenceMain

(* A gate that also turns away a confidence equal to the minimum: C11 must
   not hold with it *)
ConfidenceGateInclusive(sleeve, confidence) == confidence <= MinConf(sleeve)

ConfidenceGate(sleeve, confidence) == confidence < MinConf(sleeve)

SizeLimit(action, sleeve, position_size_pct) ==
    action = "BUY" /\ sleeve = "MAIN" /\ position_size_pct > MaxPositionPctMain

(* A capacity check that lets a sleeve exactly at capacity buy: C13 must not
   hold with it *)
CapacityLimitStrict(action, sleeve, current_positions_count) ==
    /\ action = "BUY"
    /\ current_positions_count >
            (IF sleeve = "PENNY" THEN MaxPositionsPenny ELSE MaxPositionsMain)

CapacityLimit(action, sleeve, current_positions_count) ==
    /\ action = "BUY"
    /\ current_positions_count >=
            (IF sleeve = "PENNY" THEN MaxPositionsPenny ELSE MaxPositionsMain)

BreakerGate(db, sleeve) == is_circuit_breaker_active(db, sleeve)

WashSaleBlock(db, action, ticker) == action = "BUY" /\ is_wash_sale_blocked(db, ticker)

WashSaleFlag(db, action, ticker) ==
    action = "BUY" /\ get_active_wash_sale(db, ticker) # {}

ManualNotes(action, sleeve, confidence, position_size_pct, is_new_ticker) ==
    (IF is_new_ticker /\ action = "BUY" THEN <<"new_ticker">> ELSE <<>>)
    \o (IF action = "BUY" /\ position_size_pct > ManualSizePct
        THEN <<"size_over_threshold">> ELSE <<>>)
    \o (IF confidence < (IF sleeve = "MAIN" THEN AutoApproveConfMain
                                            ELSE AutoApproveConfPenny)
        THEN <<"low_confidence">> ELSE <<>>)

(* A gate that asks the circuit breaker before anything else: C30 must not
   hold with it *)
check_tradeBreakerFirst(db, ticker, action, sleeve, confidence, position_size_pct, current_positions_count, is_new_ticker) ==
    IF BreakerGate(db, sleeve) THEN Denied("circuit_breaker")
    ELSE IF ConfidenceGate(sleeve, confidence) THEN Denied("confidence")
    ELSE IF SizeLimit(action, sleeve, position_size_pct) THEN Denied("position_size")
    ELSE IF CapacityLimit(action, sleeve, current_positions_count) THEN Denied("capacity")
    ELSE IF WashSaleBlock(db, action, ticker) THEN Denied("wash_sale")
    ELSE LET flag == WashSaleFlag(db, action, ticker)
             manual == ManualNotes(action, sleeve, confidence, position_size_pct,
                                   is_new_ticker)
         IN  RiskCheckResult(TRUE, "none", manual # <<>>, flag,
                             (IF flag THEN <<"wash_sale_window">> ELSE <<>>) \o manual)

check_trade(db, ticker, action, sleeve, confidence, position_size_pct, current_positions_count, is_new_ticker) ==
    IF ConfidenceGate(sleeve, confidence) THEN Denied("confidence")
    ELSE IF SizeLimit(action, sleeve, position_size_pct) THEN Denied("position_size")
    ELSE IF CapacityLimit(action, sleeve, current_positions_count) THEN Denied("capacity")
    ELSE IF BreakerGate(db, sleeve) THEN Denied("circuit_breaker")
    ELSE IF WashSaleBlock(db, action, ticker) THEN Denied("wash_sale")
    ELSE LET flag == WashSaleFlag(db, action, ticker)
             manual == ManualNotes(action, sleeve, confidence, position_size_pct,
                                   is_new_ticker)
         IN  RiskCheckResult(TRUE, "none", manual # <<>>, flag,
                             (IF flag THEN <<"wash_sale_window">> ELSE <<>>) \o manual)

----------------------------------------------------------------------------
(* Rows *)

(* `reasoning` is the only text column of the row: the rationale of the
   proposal, which nothing writes after the INSERT *)
TradeDecision(p) ==
    [ticker |-> p.ticker, sleeve |-> p.sleeve, action |-> p.action,
     confidence |-> p.confidence, position_size_pct |-> p.position_size_pct,
     reasoning |-> "rationale",
     status |-> "PENDING", resolved_by |-> "NONE", resolved_at |-> NoTime,
     wash_sale_flagged |-> FALSE]

Execution(id, side, qty, price) ==
    [trade_decision_id |-> id, has_order_id |-> TRUE, side |-> side, qty |-> qty,
     intended_price |-> price, filled_price |-> 0, slippage |-> 0,
     status |-> "PENDING"]

(* engine.py _update_position: the row a BUY fill adds when no position is
   open: entry_price=filled_price, cost_basis=filled_price * filled_qty *)
Position(ticker, sleeve, filled_price, filled_qty) ==
    [ticker |-> ticker, sleeve |-> sleeve, entry_price |-> Dollars(filled_price),
     current_qty |-> filled_qty,
     cost_basis |-> FMul(Dollars(filled_price), Float(filled_qty)),
     adjusted_cost_basis |-> NoVal,
     is_open |-> TRUE, closed_at |-> NoDate, realized_pnl |-> NoVal]

CircuitBreakerEvent(sleeve, at) ==
    [event_type |-> "DAILY_LOSS", sleeve |-> sleeve, is_active |-> TRUE,
     triggered_at |-> at, resolved_at |-> NoTime, resolved_by |-> "NONE"]

(* A window that closes on the same day of the next month: C15 must not hold
   with it *)
BlackoutNextMonth(sale_date) ==
    IF sale_date.m = 12 THEN Date(sale_date.y + 1, 1, sale_date.d)
                        ELSE Date(sale_date.y, sale_date.m + 1, sale_date.d)

(* blackout_until = sale_date + timedelta(days=30) *)
BlackoutUntil(sale_date) == AddDays(sale_date, WashSaleWindowDays)

(* wash_sale_tracker.py record_wash_sale: the row it adds *)
WashSale(ticker, sale_date, loss_amount, qty_sold, sale_price, cost_basis_per_share) ==
    [ticker |-> ticker, sale_date |-> sale_date, loss_amount |-> loss_amount,
     qty_sold |-> qty_sold, sale_price |-> sale_price,
     cost_basis |-> cost_basis_per_share,
     blackout_until |-> BlackoutUntil(sale_date),
     is_year_end_blocked |-> (sale_date.m = 12),
     rebought |-> FALSE, rebought_at |-> NoTime]

----------------------------------------------------------------------------
(* Sessions: flush, commit, rollback *)

(* A pending write: an UPDATE of row `key`, or an INSERT (key chosen at flush) *)
Update(tbl, key, row) == [tbl |-> tbl, insert |-> FALSE, key |-> <<key>>, row |-> row]
Insert(tbl, row) == [tbl |-> tbl, insert |-> TRUE, key |-> <<>>, row |-> row]

MinOf(S) == CHOOSE x \in S : \A y \in S : x <= y

RECURSIVE ApplyPend(_, _)
ApplyPend(ov, pend) ==
    IF pend = <<>> THEN ov
    ELSE LET w == Head(pend)
             k == IF w.insert THEN MinOf(FreeKeys(w.tbl)) ELSE w.key[1]
         IN  ApplyPend([ov EXCEPT ![w.tbl][k] = w.row], Tail(pend))

(* The flush can run: no row it updates is locked by another session, and
   the table has room for every row it inserts *)
CanFlush(t, pend) ==
    \A i \in 1..Len(pend) :
        IF pend[i].insert THEN FreeKeys(pend[i].tbl) # {}
        ELSE ~Locked(t, pend[i].tbl, pend[i].key[1])

(* The database as a session with flushed rows `ov` reads it *)
ViewOf(ov) ==
    [tbl \in Tables |->
        [k \in Keys(tbl) |-> IF ov[tbl][k] # Unset THEN ov[tbl][k]
                             ELSE committed[tbl][k]]]

----------------------------------------------------------------------------
(* Tasks *)

(* A verdict of check_trade with the arguments it was given *)
Checked(p, count, is_new, risk) ==
    [proposal |-> p, current_positions_count |-> count, is_new_ticker |-> is_new,
     risk |-> risk]

NoCheck ==
    Checked([ticker |-> "", sleeve |-> "", action |-> "", confidence |-> 0,
             position_size_pct |-> 0], 0, FALSE, Denied("none"))

(* What alpaca.get_positions gave: it raised, or the account's positions *)
AlpacaAnswer(raised, positions) == [raised |-> raised, positions |-> positions]

NoAnswer == AlpacaAnswer(FALSE, <<>>)

IdleTask ==
    [kind |-> "idle", pc |-> "idle", trade_id |-> 0,
     observed |-> "none", result |-> "none", wrote |-> FALSE,
     current_price |-> 0, qty |-> 0, filled_price |-> 0, exec_status |-> "none",
     pos_key |-> 0, pend |-> <<>>, checked |-> NoCheck, alpaca |-> NoAnswer]

(* The locals of execute_trade, cleared when it returns *)
ExecLocals(tk) ==
    [tk EXCEPT !.current_price = 0, !.qty = 0, !.filled_price = 0,
               !.pos_key = 0, !.pend = <<>>, !.alpaca = NoAnswer]

(* What the broker saw of each order, and how its poll and its cancel went *)
NoOrders ==
    [submitted |-> [e \in ExecIds |-> 0], polls |-> [e \in ExecIds |-> 0],
     cancels |-> [e \in ExecIds |-> 0], poll_result |-> [e \in ExecIds |-> "none"],
     cancel_ok |-> [e \in ExecIds |-> "none"]]

NoOut == [notify |-> 0, trade_pending |-> 0, trade_executed |-> 0,
          trade_failed |-> 0, circuit_breaker |-> 0]

NoAudit == [evaluated |-> FALSE, allowed |-> FALSE, manual |-> FALSE,
            auto |-> FALSE, exec_calls |-> 0]

Emit(id, what) == out' = [out EXCEPT ![id][what] = @ + 1]

----------------------------------------------------------------------------
(* Inputs of the runs explored *)

Proposal(ticker, sleeve, action, confidence, position_size_pct) ==
    [ticker |-> ticker, sleeve |-> sleeve, action |-> action,
     confidence |-> confidence, position_size_pct |-> position_size_pct]

Proposals ==
    {Proposal("AAA", "MAIN", "SELL", 80, 20),
     Proposal("AAA", "MAIN", "BUY", 80, 20),
     Proposal("AAA", "MAIN", "BUY", 60, 20),
     Proposal("AAA", "MAIN", "BUY", 66, 20)}

QuotePrices == {0, 400}         \* 0: the quote carries no usable price
FillPrices == {200, 400}
BrokerQtys ==       \* what the broker's position list holds, or its failure
    {AlpacaAnswer(TRUE, <<>>), AlpacaAnswer(FALSE, <<>>),
     AlpacaAnswer(FALSE, <<[ticker |-> "BBB", qty |-> 1]>>),
     AlpacaAnswer(FALSE, <<[ticker |-> "BBB", qty |-> 1], [ticker |-> "AAA", qty |-> 1]>>)}
PollScripts == {"filled", "ended", "open", "errors"}
Dates == {Date(2025, 6, 10)}

EmptyTables == [tbl \in Tables |-> [k \in Keys(tbl) |-> NoRow]]

InitialTables ==
    [EmptyTables EXCEPT
        !["positions"][1] = Position("AAA", "MAIN", 500, 2)]

Init ==
    /\ committed = InitialTables
    /\ overlay = [t \in Tasks |-> EmptyOverlay]
    /\ task = [t \in Tasks |-> IdleTask]
    /\ auto_approve = FALSE
    /\ broker = NoOrders
    /\ out = [id \in TradeIds |-> NoOut]
    /\ audit = [id \in TradeIds |-> NoAudit]
    /\ today \in Dates

----------------------------------------------------------------------------
(* runtime_config.py *)

get_auto_approve == auto_approve

set_auto_approve(value) == auto_approve' = value

----------------------------------------------------------------------------
(* database.py get_db, pipeline.py run_pipeline: how a session ends *)

(* session.commit() of a request that returned *)
Commit(t) ==
    /\ task[t].pc = "commit"
    /\ committed' = View(t)
    /\ overlay' = [overlay EXCEPT ![t] = EmptyOverlay]
    /\ task' = [task EXCEPT ![t].pc = "done"]
    /\ UNCHANGED <<auto_approve, broker, out, audit, today>>

(* session.rollback(): the request raised, or the task was cancelled and its
   session closed without a commit *)
Rollback(t) ==
    /\ task[t].pc \in {"raised", "cancelled"}
    /\ overlay' = [overlay EXCEPT ![t] = EmptyOverlay]
    /\ task' = [task EXCEPT ![t].pc = "done"]
    /\ UNCHANGED <<committed, auto_approve, broker, out, audit, today>>

(* run_pipeline's `except Exception`: the run is marked FAILED and committed,
   with every row the session had flushed; then the exception is re-raised *)
PipelineFailed(t) ==
    /\ task[t].pc = "pipeline_failed"
    /\ committed' = View(t)
    /\ overlay' = [overlay EXCEPT ![t] = EmptyOverlay]
    /\ task' = [task EXCEPT ![t].pc = "done"]
    /\ UNCHANGED <<auto_approve, broker, out, audit, today>>

----------------------------------------------------------------------------
(* approval_queue.py approve_trade, reject_trade *)

ObservedStatus(row) == IF row = NoRow THEN "NOTFOUND" ELSE row.status

(* A guard that lets an APPROVED proposal through as well: C4 must not hold
   with it *)
NotPendingNorApproved(status) == status \notin {"PENDING", "APPROVED"}

(* `if trade.status != "PENDING": return trade` *)
NotPending(status) == status # "PENDING"

(* select(TradeDecision).where(id == trade_id), and the two early returns *)
ApproveSelect(t, id) ==
    /\ ~IsPipeline(t)
    /\ task[t].pc = "idle"
    /\ LET row == View(t)["trade_decisions"][id]
           seen == ObservedStatus(row)
       IN  task' = [task EXCEPT ![t] =
                [@ EXCEPT !.kind = "approve", !.trade_id = id, !.observed = seen,
                          !.result = IF row = NoRow THEN "None"
                                     ELSE IF NotPending(seen) THEN "trade" ELSE "none",
                          !.pc = IF row = NoRow \/ NotPending(seen) THEN "commit"
                                 ELSE "approve_flush"]]
    /\ UNCHANGED <<committed, overlay, auto_approve, broker, out, audit, today>>

RejectSelect(t, id) ==
    /\ ~IsPipeline(t)
    /\ task[t].pc = "idle"
    /\ LET row == View(t)["trade_decisions"][id]
           seen == ObservedStatus(row)
       IN  task' = [task EXCEPT ![t] =
                [@ EXCEPT !.kind = "reject", !.trade_id = id, !.observed = seen,
                          !.result = IF row = NoRow THEN "None"
                                     ELSE IF NotPending(seen) THEN "trade" ELSE "none",
                          !.pc = IF row = NoRow \/ NotPending(seen) THEN "commit"
                                 ELSE "reject_flush"]]
    /\ UNCHANGED <<committed, overlay, auto_approve, broker, out, audit, today>>

(* The row as the session's UPDATE leaves it: the columns the session set,
   on the row as it now stands *)
Resolved(t, id, status, by, at) ==
    [View(t)["trade_decisions"][id] EXCEPT
        !.status = status, !.resolved_by = by, !.resolved_at = at]

(* execute_trade is entered: settings and AlpacaClient() come before its
   try, so what they raise leaves execute_trade and its caller *)
EnterExecute(t, tk, id, client_ok) ==
    [tk EXCEPT !.trade_id = id, !.wrote = TRUE, !.exec_status = "none",
               !.pc = IF client_ok THEN "quote"
                      ELSE IF IsPipeline(t) THEN "pipeline_failed" ELSE "raised"]

(* The proposal is done with: approve_trade returns the trade, and
   process_new_decisions goes on to the next id of the batch *)
AfterProposal(t, tk) ==
    IF IsPipeline(t)
    THEN IF tk.trade_id < NumTrades
         THEN [ExecLocals(tk) EXCEPT !.pc = "process", !.trade_id = @ + 1]
         ELSE [ExecLocals(tk) EXCEPT !.pc = "commit"]
    ELSE [ExecLocals(tk) EXCEPT !.pc = "commit", !.result = "trade"]

(* trade.status = "APPROVED" ...; await db.flush(); await execute_trade(db, trade) *)
ApproveFlush(t) ==
    /\ task[t].pc = "approve_flush"
    /\ LET id == task[t].trade_id
       IN  /\ ~Locked(t, "trade_decisions", id)
           /\ overlay' = [overlay EXCEPT ![t]["trade_decisions"][id] =
                    Resolved(t, id, "APPROVED", "MANUAL", Now(t, id, "approve"))]
           /\ audit' = [audit EXCEPT ![id].exec_calls = @ + 1]
           /\ \E client_ok \in BOOLEAN :
                task' = [task EXCEPT ![t] = EnterExecute(t, @, id, client_ok)]
    /\ UNCHANGED <<committed, auto_approve, broker, out, today>>

(* trade.status = "REJECTED" ...; await db.flush(); return trade *)
RejectFlush(t) ==
    /\ task[t].pc = "reject_flush"
    /\ LET id == task[t].trade_id
       IN  /\ ~Locked(t, "trade_decisions", id)
           /\ overlay' = [overlay EXCEPT ![t]["trade_decisions"][id] =
                    Resolved(t, id, "REJECTED", "MANUAL", Now(t, id, "reject"))]
    /\ task' = [task EXCEPT ![t] =
            [@ EXCEPT !.wrote = TRUE, !.result = "trade", !.pc = "commit"]]
    /\ UNCHANGED <<committed, auto_approve, broker, out, audit, today>>

----------------------------------------------------------------------------
(* pipeline.py _persist_trade_decisions, approval_queue.py process_new_decisions *)

(* db.add(orm_trade) for every actionable decision; await db.flush() *)
PersistTradeDecisions(t) ==
    /\ IsPipeline(t)
    /\ task[t].pc = "idle"
    /\ \E ps \in [TradeIds -> Proposals] :
        overlay' = [overlay EXCEPT ![t]["trade_decisions"] =
                        [id \in TradeIds |-> TradeDecision(ps[id])]]
    /\ task' = [task EXCEPT ![t] =
            [@ EXCEPT !.kind = "pipeline", !.pc = "process", !.trade_id = 1]]
    /\ UNCHANGED <<committed, auto_approve, broker, out, audit, today>>

OpenPositions(db, sleeve) ==
    {k \in Rows(db, "positions") :
        db["positions"][k].sleeve = sleeve /\ db["positions"][k].is_open}

EverHeld(db, ticker, sleeve) ==
    \E k \in Rows(db, "positions") :
        db["positions"][k].ticker = ticker /\ db["positions"][k].sleeve = sleeve

(* The verdict of check_trade on the trade the task is at *)
Risk(t) ==
    LET db == View(t)
        trade == db["trade_decisions"][task[t].trade_id]
    IN  check_trade(db, trade.ticker, trade.action, trade.sleeve, trade.confidence,
                    trade.position_size_pct,
                    Cardinality(OpenPositions(db, trade.sleeve)),
                    ~EverHeld(db, trade.ticker, trade.sleeve))

(* A condition that looks at the flag alone: C5 must not hold with it *)
AutoFlagOnly(risk) == get_auto_approve

(* `if get_auto_approve() and not risk.requires_manual_approval` *)
AutoEligible(risk) == get_auto_approve /\ ~risk.requires_manual_approval

Audited(id, risk) ==
    [audit EXCEPT ![id].evaluated = TRUE, ![id].allowed = risk.allowed,
                  ![id].manual = risk.requires_manual_approval,
                  ![id].auto = get_auto_approve]

(* `if not trade or trade.status != "PENDING": continue`. The ids of a batch
   are rows the same transaction has just inserted as PENDING. *)
AtPending(t) ==
    /\ task[t].pc = "process"
    /\ View(t)["trade_decisions"][task[t].trade_id] # NoRow
    /\ View(t)["trade_decisions"][task[t].trade_id].status = "PENDING"

(* One of the queries before the verdict raises: nothing in
   process_new_decisions catches it, and the transaction is lost with it *)
ProcessRaise(t) ==
    /\ AtPending(t)
    /\ task' = [task EXCEPT ![t].pc = "raised"]
    /\ UNCHANGED <<committed, overlay, auto_approve, broker, out, audit, today>>

(* `if not risk.allowed`: REJECTED, AUTO; continue *)
ProcessReject(t) ==
    /\ AtPending(t)
    /\ ~Risk(t).allowed
    /\ LET id == task[t].trade_id
       IN  /\ overlay' = [overlay EXCEPT ![t]["trade_decisions"][id] =
                    Resolved(t, id, "REJECTED", "AUTO", Now(t, id, "risk"))]
           /\ audit' = Audited(id, Risk(t))
    /\ task' = [task EXCEPT ![t] = AfterProposal(t, @)]
    /\ UNCHANGED <<committed, auto_approve, broker, out, today>>

(* Allowed and auto-approve eligible: APPROVED, AUTO; execute_trade *)
ProcessAutoApprove(t) ==
    /\ AtPending(t)
    /\ Risk(t).allowed
    /\ AutoEligible(Risk(t))
    /\ LET id == task[t].trade_id
           row == Resolved(t, id, "APPROVED", "AUTO", Now(t, id, "auto"))
       IN  /\ overlay' = [overlay EXCEPT ![t]["trade_decisions"][id] =
                    [row EXCEPT !.wash_sale_flagged = @ \/ Risk(t).wash_sale_flag]]
           /\ audit' = [Audited(id, Risk(t)) EXCEPT ![id].exec_calls = @ + 1]
           /\ \E client_ok \in BOOLEAN :
                task' = [task EXCEPT ![t] = EnterExecute(t, @, id, client_ok)]
    /\ UNCHANGED <<committed, auto_approve, broker, out, today>>

(* Allowed, left PENDING: flush, _notify_pending, broadcast trade_pending *)
ProcessQueue(t) ==
    /\ AtPending(t)
    /\ Risk(t).allowed
    /\ ~AutoEligible(Risk(t))
    /\ LET id == task[t].trade_id
       IN  /\ overlay' = [overlay EXCEPT ![t]["trade_decisions"][id] =
                    [@ EXCEPT !.wash_sale_flagged = @ \/ Risk(t).wash_sale_flag]]
           /\ audit' = Audited(id, Risk(t))
           /\ out' = [out EXCEPT ![id].notify = @ + 1, ![id].trade_pending = @ + 1]
    /\ task' = [task EXCEPT ![t] = AfterProposal(t, @)]
    /\ UNCHANGED <<committed, auto_approve, broker, today>>

----------------------------------------------------------------------------
(* engine.py execute_trade: from the quote to the end of the poll *)

TradeOf(t) == View(t)["trade_decisions"][task[t].trade_id]

ExecKey(t) == <<t, task[t].trade_id>>

SleeveEquity(sleeve) ==
    IF sleeve = "PENNY" THEN PennySleeveAllocation ELSE MainSleeveAllocation

(* _calculate_qty, BUY: max(int(dollar_amount / current_price), 0), with
   dollar_amount = (position_size_pct / 100.0) * sleeve_equity, capped for
   PENNY by min(dollar_amount, max_position_dollars_penny); in floats *)
BuyQty(sleeve, position_size_pct, current_price) ==
    LET dollar_amount == FMul(FDiv(Float(position_size_pct), Float(100)),
                              Dollars(SleeveEquity(sleeve)))
        capped == IF sleeve = "PENNY"
                  THEN FMin(dollar_amount, Dollars(MaxPositionDollarsPenny))
                  ELSE dollar_amount
        qty == FTrunc(FDiv(capped, Dollars(current_price)))
    IN  IF qty > 0 THEN qty ELSE 0

(* `if qty <= 0` *)
NoSharesNegativeOnly(qty) == qty < 0

NoShares(qty) == qty <= 0

(* The open position of the ticker in the sleeve: first() of the select *)
OpenPositionOf(db, ticker, sleeve) ==
    {k \in OpenPositions(db, sleeve) : db["positions"][k].ticker = ticker}

(* A price check that lets every quote through: C20 must not hold with it *)
AnyPrice(price) == TRUE

(* `if not current_price or current_price <= 0: raise ValueError` *)
UsablePrice(price) == price > 0

(* get_latest_quotes raises: caught by the handler of execute_trade *)
ExecQuoteFail(t) ==
    /\ task[t].pc = "quote"
    /\ task' = [task EXCEPT ![t].pc = "fail_flush"]
    /\ UNCHANGED <<committed, overlay, auto_approve, broker, out, audit, today>>

(* The quote is read: without a usable price, ValueError, caught; with one,
   _calculate_qty of a BUY, whose division raises on a price of 0 *)
ExecQuote(t) ==
    /\ task[t].pc = "quote"
    /\ \E price \in QuotePrices :
        LET trade == TradeOf(t)
            qty == BuyQty(trade.sleeve, trade.position_size_pct, price)
        IN  IF ~UsablePrice(price) \/ (trade.action = "BUY" /\ price = 0)
            THEN task' = [task EXCEPT ![t] =
                    [@ EXCEPT !.current_price = price, !.pc = "fail_flush"]]
            ELSE task' = [task EXCEPT ![t] =
                    [@ EXCEPT !.current_price = price,
                              !.qty = IF trade.action = "BUY" THEN qty ELSE 0,
                              !.pc = IF trade.action = "SELL" THEN "calc_qty_sell"
                                     ELSE IF NoShares(qty) THEN "skip_flush"
                                     ELSE "submit"]]
    /\ UNCHANGED <<committed, overlay, auto_approve, broker, out, audit, today>>

(* A SELL sizing that asks the broker first: C23 must not hold with it *)
ExecCalcQtySellBrokerFirst(t) ==
    /\ task[t].pc = "calc_qty_sell"
    /\ task' = [task EXCEPT ![t].pc = "calc_qty_fallback"]
    /\ UNCHANGED <<committed, overlay, auto_approve, broker, out, audit, today>>

(* _calculate_qty of a SELL: the whole open position of the ledger *)
ExecCalcQtySell(t) ==
    /\ task[t].pc = "calc_qty_sell"
    /\ LET db == View(t)
           held == OpenPositionOf(db, TradeOf(t).ticker, TradeOf(t).sleeve)
       IN  IF \E k \in held : db["positions"][k].current_qty > 0
           THEN \E k \in held :
                    /\ db["positions"][k].current_qty > 0
                    /\ task' = [task EXCEPT ![t] =
                            [@ EXCEPT !.qty = db["positions"][k].current_qty,
                                      !.pc = "submit"]]
           ELSE task' = [task EXCEPT ![t].pc = "calc_qty_fallback"]
    /\ UNCHANGED <<committed, overlay, auto_approve, broker, out, audit, today>>

(* `for p in positions: if p["ticker"] == trade.ticker: return qty`, else 0 *)
RECURSIVE AlpacaQty(_, _)
AlpacaQty(positions, ticker) ==
    IF positions = <<>> THEN 0
    ELSE IF Head(positions).ticker = ticker THEN Head(positions).qty
    ELSE AlpacaQty(Tail(positions), ticker)

(* The fallback: the broker's own position list; an error there gives 0 *)
ExecCalcQtyFallback(t) ==
    /\ task[t].pc = "calc_qty_fallback"
    /\ \E answer \in BrokerQtys :
        LET qty == IF answer.raised THEN 0
                   ELSE AlpacaQty(answer.positions, TradeOf(t).ticker)
        IN  task' = [task EXCEPT ![t] =
                [@ EXCEPT !.qty = qty, !.alpaca = answer,
                          !.pc = IF NoShares(qty) THEN "skip_flush" ELSE "submit"]]
    /\ UNCHANGED <<committed, overlay, auto_approve, broker, out, audit, today>>

(* trade.status = "SKIPPED"; await db.flush(); return *)
ExecSkipFlush(t) ==
    /\ task[t].pc = "skip_flush"
    /\ LET id == task[t].trade_id
       IN  overlay' = [overlay EXCEPT ![t]["trade_decisions"][id] =
                [TradeOf(t) EXCEPT !.status = "SKIPPED",
                                   !.resolved_at = Now(t, id, "skipped")]]
    /\ task' = [task EXCEPT ![t] = AfterProposal(t, @)]
    /\ UNCHANGED <<committed, auto_approve, broker, out, audit, today>>

(* submit_market_order raises: caught by the handler *)
ExecSubmitFail(t) ==
    /\ task[t].pc = "submit"
    /\ task' = [task EXCEPT ![t].pc = "fail_flush"]
    /\ UNCHANGED <<committed, overlay, auto_approve, broker, out, audit, today>>

(* submit_market_order: the broker has the order *)
ExecSubmit(t) ==
    /\ task[t].pc = "submit"
    /\ broker' = [broker EXCEPT !.submitted[ExecKey(t)] = @ + 1]
    /\ task' = [task EXCEPT ![t] = [@ EXCEPT !.exec_status = "PENDING",
                                             !.pc = "shell_flush"]]
    /\ UNCHANGED <<committed, overlay, auto_approve, out, audit, today>>

(* db.add(execution) with status PENDING; await db.flush() *)
ExecShellFlush(t) ==
    /\ task[t].pc = "shell_flush"
    /\ overlay' = [overlay EXCEPT ![t]["executions"][ExecKey(t)] =
            Execution(task[t].trade_id, TradeOf(t).action, task[t].qty,
                      task[t].current_price)]
    /\ task' = [task EXCEPT ![t].pc = "poll"]
    /\ UNCHANGED <<committed, auto_approve, broker, out, audit, today>>

(* `while elapsed < _POLL_TIMEOUT_SEC` *)
PollContinue(elapsed) == elapsed < _POLL_TIMEOUT_SEC

(* What get_order_status answers to the i-th query, under each behaviour of
   the broker explored; "error" is the call raising *)
Response(script, i) ==
    CASE script = "filled" -> "filled"
      [] script = "ended" -> "cancelled"
      [] script = "open" -> "new"
      [] script = "errors" -> (IF i % 3 = 1 THEN "error"
                               ELSE IF i % 3 = 2 THEN "filled_no_price" ELSE "new")

(* _poll_for_fill: the loop, with the number of status queries it made *)
RECURSIVE _poll_for_fill(_, _, _)
_poll_for_fill(script, elapsed, polls) ==
    IF ~PollContinue(elapsed)
    THEN [filled |-> FALSE, why |-> "timeout", polls |-> polls]
    ELSE LET status == Response(script, polls + 1)
         IN  IF status = "filled"
             THEN [filled |-> TRUE, why |-> "filled", polls |-> polls + 1]
             ELSE IF status \in {"cancelled", "expired", "rejected"}
             THEN [filled |-> FALSE, why |-> "ended", polls |-> polls + 1]
             ELSE _poll_for_fill(script, elapsed + _POLL_INTERVAL_SEC, polls + 1)

(* An execute_trade that cancels the order whatever the poll returned: C38
   must not hold with it *)
PollForFillCancelsAnyway(t) ==
    /\ task[t].pc = "poll"
    /\ \E script \in PollScripts :
        LET r == _poll_for_fill(script, 0, 0)
        IN  /\ broker' = [broker EXCEPT !.polls[ExecKey(t)] = r.polls,
                                         !.poll_result[ExecKey(t)] = r.why]
            /\ task' = [task EXCEPT ![t].pc = "cancel_order"]
    /\ UNCHANGED <<committed, overlay, auto_approve, out, audit, today>>

(* A poll that asks the status once more after the broker ended the order:
   C31 must not hold with it *)
PollForFillPollsOn(t) ==
    /\ task[t].pc = "poll"
    /\ \E script \in PollScripts, price \in FillPrices :
        LET r == _poll_for_fill(script, 0, 0)
        IN  /\ broker' = [broker EXCEPT
                    !.polls[ExecKey(t)] = IF r.why = "ended" THEN r.polls + 1 ELSE r.polls,
                    !.poll_result[ExecKey(t)] = r.why]
            /\ task' = [task EXCEPT ![t] =
                    IF r.filled
                    THEN [@ EXCEPT !.filled_price = price, !.exec_status = "FILLED",
                                   !.pc = "update_position"]
                    ELSE [@ EXCEPT !.pc = "cancel_order"]]
    /\ UNCHANGED <<committed, overlay, auto_approve, out, audit, today>>

(* filled = await _poll_for_fill(alpaca, order_id); `if not filled` *)
PollForFill(t) ==
    /\ task[t].pc = "poll"
    /\ \E script \in PollScripts, price \in FillPrices :
        LET r == _poll_for_fill(script, 0, 0)
        IN  /\ broker' = [broker EXCEPT !.polls[ExecKey(t)] = r.polls,
                                         !.poll_result[ExecKey(t)] = r.why]
            /\ task' = [task EXCEPT ![t] =
                    IF r.filled
                    THEN [@ EXCEPT !.filled_price = price, !.exec_status = "FILLED",
                                   !.pc = "update_position"]
                    ELSE [@ EXCEPT !.pc = "cancel_order"]]
    /\ UNCHANGED <<committed, overlay, auto_approve, out, audit, today>>

(* The task is cancelled while it sleeps in the poll: CancelledError is not an
   Exception, so the handler of execute_trade does not run *)
CancelTask(t) ==
    /\ task[t].pc = "poll"
    /\ broker' = [broker EXCEPT !.poll_result[ExecKey(t)] = "task_cancelled"]
    /\ task' = [task EXCEPT ![t].pc = "cancelled"]
    /\ UNCHANGED <<committed, overlay, auto_approve, out, audit, today>>

(* A cancel_order that lets the failure of the request through: C8 must not
   hold with it *)
CancelOrderPropagates(ok) == ~ok

(* alpaca_client.py cancel_order: what the request raises is logged there *)
CancelOrderRaises(ok) == FALSE

(* cancel_order; execution.status = "CANCELLED"; trade.status = "FAILED" *)
ExecCancelOrder(t) ==
    /\ task[t].pc = "cancel_order"
    /\ \E ok \in BOOLEAN :
        /\ broker' = [broker EXCEPT !.cancels[ExecKey(t)] = @ + 1,
                                     !.cancel_ok[ExecKey(t)] = IF ok THEN "yes" ELSE "no"]
        /\ task' = [task EXCEPT ![t] =
                IF CancelOrderRaises(ok)
                THEN [@ EXCEPT !.pc = "fail_flush"]
                ELSE [@ EXCEPT !.exec_status = "CANCELLED", !.pc = "cancelled_flush"]]
    /\ UNCHANGED <<committed, overlay, auto_approve, out, audit, today>>

(* await db.flush(); broadcast trade_failed; return *)
ExecCancelledFlush(t) ==
    /\ task[t].pc = "cancelled_flush"
    /\ LET id == task[t].trade_id
       IN  /\ overlay' = [overlay EXCEPT
                    ![t]["executions"][ExecKey(t)] =
                        [View(t)["executions"][ExecKey(t)] EXCEPT !.status = "CANCELLED"],
                    ![t]["trade_decisions"][id] =
                        [TradeOf(t) EXCEPT !.status = "FAILED",
                                           !.resolved_at = Now(t, id, "cancelled")]]
           /\ Emit(id, "trade_failed")
    /\ task' = [task EXCEPT ![t] = AfterProposal(t, @)]
    /\ UNCHANGED <<committed, auto_approve, broker, audit, today>>

----------------------------------------------------------------------------
(* engine.py execute_trade: the fill, _update_position, _post_execution_checks *)

(* Step 5: the fill on the Execution and on the trade, written by the next
   flush of the session *)
FilledExecution(t) ==
    [View(t)["executions"][ExecKey(t)] EXCEPT
        !.filled_price = task[t].filled_price,
        !.slippage = task[t].filled_price - task[t].current_price,
        !.status = "FILLED"]

FillRecorded(t) ==
    [overlay[t] EXCEPT
        !["executions"][ExecKey(t)] = FilledExecution(t),
        !["trade_decisions"][task[t].trade_id] =
            [TradeOf(t) EXCEPT !.status = "EXECUTED",
                               !.resolved_at = Now(t, task[t].trade_id, "executed")]]

(* BUY into an open position: the weighted average *)
BuyInto(pos, filled_price, filled_qty) ==
    LET total_qty == pos.current_qty + filled_qty
        fill_cost == FMul(Dollars(filled_price), Float(filled_qty))
        total_cost == FAdd(pos.cost_basis, fill_cost)
    IN  [pos EXCEPT !.current_qty = total_qty, !.cost_basis = total_cost,
                    !.entry_price = FDiv(total_cost, Float(total_qty))]

CostPerShare(pos) ==
    IF pos.current_qty > 0 THEN FDiv(pos.cost_basis, Float(pos.current_qty)) ELSE FZero

(* cost_of_sold = cost_per_share * filled_qty *)
CostOfSold(pos, filled_qty) == FMul(CostPerShare(pos), Float(filled_qty))

(* realized_pnl = sell_proceeds - cost_of_sold *)
RealizedPnl(pos, filled_price, filled_qty) ==
    FSub(FMul(Dollars(filled_price), Float(filled_qty)), CostOfSold(pos, filled_qty))

(* `if position.current_qty <= 0.001`, on whole shares *)
FullyClosed(qty) == qty <= 0

(* SELL out of an open position *)
SellFrom(pos, filled_price, filled_qty) ==
    LET left == IF pos.current_qty - filled_qty > 0
                THEN pos.current_qty - filled_qty ELSE 0
        reduced == [pos EXCEPT
                        !.current_qty = left,
                        !.cost_basis = FMax0(FSub(pos.cost_basis,
                                                  CostOfSold(pos, filled_qty)))]
    IN  IF FullyClosed(left)
        THEN [reduced EXCEPT !.is_open = FALSE, !.closed_at = today,
                             !.realized_pnl = RealizedPnl(pos, filled_price, filled_qty)]
        ELSE reduced

(* The select of _update_position raises *)
UpdatePositionRaise(t) ==
    /\ task[t].pc = "update_position"
    /\ task' = [task EXCEPT ![t].pc = "fail_flush"]
    /\ UNCHANGED <<committed, overlay, auto_approve, broker, out, audit, today>>

UpdatePositionBuy(t) ==
    /\ task[t].pc = "update_position"
    /\ TradeOf(t).action = "BUY"
    /\ overlay' = [overlay EXCEPT ![t] = FillRecorded(t)]
    /\ LET db == View(t)
           trade == TradeOf(t)
           held == OpenPositionOf(db, trade.ticker, trade.sleeve)
       IN  IF held # {}
           THEN \E k \in held :
                    task' = [task EXCEPT ![t] =
                        [@ EXCEPT !.pc = "position_flush",
                                  !.pend = <<Update("positions", k,
                                        BuyInto(db["positions"][k], task[t].filled_price,
                                                task[t].qty))>>]]
           ELSE task' = [task EXCEPT ![t] =
                    [@ EXCEPT !.pc = "position_flush",
                              !.pend = <<Insert("positions",
                                    Position(trade.ticker, trade.sleeve,
                                             task[t].filled_price, task[t].qty))>>]]
    /\ UNCHANGED <<committed, auto_approve, broker, out, audit, today>>

(* BUY: await db.flush() *)
UpdatePositionFlush(t) ==
    /\ task[t].pc = "position_flush"
    /\ CanFlush(t, task[t].pend)
    /\ overlay' = [overlay EXCEPT ![t] = ApplyPend(@, task[t].pend)]
    /\ task' = [task EXCEPT ![t] =
            [@ EXCEPT !.pc = "wash_check", !.pend = <<>>,
                      !.pos_key = IF task[t].pend[1].insert
                                  THEN MinOf(FreeKeys("positions"))
                                  ELSE task[t].pend[1].key[1]]]
    /\ UNCHANGED <<committed, auto_approve, broker, out, audit, today>>

(* BUY: get_active_wash_sale; the disallowed loss goes onto the cost basis *)
UpdatePositionWash(t) ==
    /\ task[t].pc = "wash_check"
    /\ LET db == View(t)
           id == task[t].trade_id
           active == get_active_wash_sale(db, TradeOf(t).ticker)
           pos == db["positions"][task[t].pos_key]
       IN  IF active = {}
           THEN task' = [task EXCEPT ![t].pc = "final_flush"]
           ELSE \E w \in active :
                    task' = [task EXCEPT ![t] =
                        [@ EXCEPT !.pc = "mark_rebought",
                                  !.pend = <<Update("positions", task[t].pos_key,
                                        [pos EXCEPT !.adjusted_cost_basis =
                                            FAdd(pos.cost_basis,
                                                 db["wash_sales"][w].loss_amount)]),
                                      Update("trade_decisions", id,
                                        [TradeOf(t) EXCEPT !.wash_sale_flagged = TRUE])>>]]
    /\ UNCHANGED <<committed, overlay, auto_approve, broker, out, audit, today>>

(* wash_sale_tracker.py mark_rebought: its select flushes what is pending *)
MarkRebought(t) ==
    /\ task[t].pc = "mark_rebought"
    /\ CanFlush(t, task[t].pend)
    /\ LET ov == ApplyPend(overlay[t], task[t].pend)
           db == ViewOf(ov)
           active == get_active_wash_sale(db, TradeOf(t).ticker)
       IN  /\ overlay' = [overlay EXCEPT ![t] = ov]
           /\ IF active = {}
              THEN task' = [task EXCEPT ![t] = [@ EXCEPT !.pc = "final_flush",
                                                         !.pend = <<>>]]
              ELSE \E w \in active :
                    task' = [task EXCEPT ![t] =
                        [@ EXCEPT !.pc = "final_flush",
                                  !.pend = <<Update("wash_sales", w,
                                        [db["wash_sales"][w] EXCEPT
                                            !.rebought = TRUE,
                                            !.rebought_at =
                                                Now(t, task[t].trade_id, "rebought")])>>]]
    /\ UNCHANGED <<committed, auto_approve, broker, out, audit, today>>

(* A SELL that writes a Position row when none is open: C39 must not hold
   with it *)
UpdatePositionSellOpensRow(t) ==
    /\ task[t].pc = "update_position"
    /\ TradeOf(t).action = "SELL"
    /\ overlay' = [overlay EXCEPT ![t] = FillRecorded(t)]
    /\ LET db == View(t)
           trade == TradeOf(t)
           held == OpenPositionOf(db, trade.ticker, trade.sleeve)
       IN  IF held = {}
           THEN task' = [task EXCEPT ![t] =
                    [@ EXCEPT !.pc = "post_pnl",
                              !.pend = <<Insert("positions",
                                    Position(trade.ticker, trade.sleeve,
                                             task[t].filled_price, 0))>>]]
           ELSE \E k \in held :
                LET pos == db["positions"][k]
                    sold == SellFrom(pos, task[t].filled_price, task[t].qty)
                    pnl == RealizedPnl(pos, task[t].filled_price, task[t].qty)
                    loss == ~sold.is_open /\ FLt(pnl, FZero)
                IN  task' = [task EXCEPT ![t] =
                        [@ EXCEPT
                            !.pc = IF loss THEN "wash_record_flush" ELSE "post_pnl",
                            !.pend = <<Update("positions", k, sold)>> \o
                                (IF loss
                                 THEN <<Insert("wash_sales",
                                        WashSale(trade.ticker, today, FNeg(pnl),
                                                 task[t].qty, task[t].filled_price,
                                                 CostPerShare(pos)))>>
                                 ELSE <<>>)]]
    /\ UNCHANGED <<committed, auto_approve, broker, out, audit, today>>

UpdatePositionSell(t) ==
    /\ task[t].pc = "update_position"
    /\ TradeOf(t).action = "SELL"
    /\ overlay' = [overlay EXCEPT ![t] = FillRecorded(t)]
    /\ LET db == View(t)
           trade == TradeOf(t)
           held == OpenPositionOf(db, trade.ticker, trade.sleeve)
       IN  IF held = {}
           THEN task' = [task EXCEPT ![t].pc = "post_pnl"]
           ELSE \E k \in held :
                LET pos == db["positions"][k]
                    sold == SellFrom(pos, task[t].filled_price, task[t].qty)
                    pnl == RealizedPnl(pos, task[t].filled_price, task[t].qty)
                    loss == ~sold.is_open /\ FLt(pnl, FZero)
                IN  task' = [task EXCEPT ![t] =
                        [@ EXCEPT
                            !.pc = IF loss THEN "wash_record_flush" ELSE "post_pnl",
                            !.pend = <<Update("positions", k, sold)>> \o
                                (IF loss
                                 THEN <<Insert("wash_sales",
                                        WashSale(trade.ticker, today, FNeg(pnl),
                                                 task[t].qty, task[t].filled_price,
                                                 CostPerShare(pos)))>>
                                 ELSE <<>>)]]
    /\ UNCHANGED <<committed, auto_approve, broker, out, audit, today>>

(* wash_sale_tracker.py record_wash_sale: db.add(wash_sale); await db.flush() *)
RecordWashSale(t) ==
    /\ task[t].pc = "wash_record_flush"
    /\ CanFlush(t, task[t].pend)
    /\ overlay' = [overlay EXCEPT ![t] = ApplyPend(@, task[t].pend)]
    /\ task' = [task EXCEPT ![t] = [@ EXCEPT !.pc = "post_pnl", !.pend = <<>>]]
    /\ UNCHANGED <<committed, auto_approve, broker, out, audit, today>>

(* func.coalesce(func.sum(Position.realized_pnl), 0.0) *)
RECURSIVE FSum(_, _)
FSum(db, ks) ==
    IF ks = {} THEN FZero
    ELSE LET k == CHOOSE x \in ks : TRUE
         IN  FAdd(db["positions"][k].realized_pnl, FSum(db, ks \ {k}))

(* risk_manager.py get_today_realized_pnl *)
get_today_realized_pnl(db, sleeve) ==
    FSum(db, {k \in Rows(db, "positions") :
                /\ db["positions"][k].sleeve = sleeve
                /\ ~db["positions"][k].is_open
                /\ db["positions"][k].realized_pnl # NoVal
                /\ db["positions"][k].closed_at = today})

(* loss_limit_dollars = sleeve_equity * (loss_limit_pct / 100.0) *)
LossLimit(sleeve) ==
    FMul(Dollars(SleeveEquity(sleeve)),
         FDiv(Float(IF sleeve = "PENNY" THEN DailyLossLimitPennyPct
                                        ELSE DailyLossLimitMainPct), Float(100)))

(* A limit that is hit by a loss equal to it: C33 must not hold with it *)
LossLimitHitInclusive(pnl, sleeve) == ~FLt(FNeg(LossLimit(sleeve)), pnl)

(* `if pnl < -loss_limit_dollars` *)
LossLimitHit(pnl, sleeve) == FLt(pnl, FNeg(LossLimit(sleeve)))

(* The query of get_today_realized_pnl raises *)
PostChecksRaise(t) ==
    /\ task[t].pc = "post_pnl"
    /\ task' = [task EXCEPT ![t].pc = "fail_flush"]
    /\ UNCHANGED <<committed, overlay, auto_approve, broker, out, audit, today>>

(* _post_execution_checks of a SELL: today's realized P&L against the limit *)
PostChecksPnl(t) ==
    /\ task[t].pc = "post_pnl"
    /\ CanFlush(t, task[t].pend)
    /\ LET ov == ApplyPend(overlay[t], task[t].pend)
           pnl == get_today_realized_pnl(ViewOf(ov), TradeOf(t).sleeve)
       IN  /\ overlay' = [overlay EXCEPT ![t] = ov]
           /\ task' = [task EXCEPT ![t] =
                [@ EXCEPT !.pend = <<>>,
                          !.pc = IF LossLimitHit(pnl, TradeOf(t).sleeve)
                                 THEN "post_breaker" ELSE "final_flush"]]
    /\ UNCHANGED <<committed, auto_approve, broker, out, audit, today>>

(* `if not await is_circuit_breaker_active(db, sleeve=sleeve)`; the event is
   built by trigger_circuit_breaker *)
PostChecksBreaker(t) ==
    /\ task[t].pc = "post_breaker"
    /\ LET sleeve == TradeOf(t).sleeve
       IN  task' = [task EXCEPT ![t] =
                IF is_circuit_breaker_active(View(t), sleeve)
                THEN [@ EXCEPT !.pc = "final_flush"]
                ELSE [@ EXCEPT !.pc = "post_trigger",
                               !.pend = <<Insert("circuit_breaker_events",
                                    CircuitBreakerEvent(sleeve,
                                        Now(t, task[t].trade_id, "breaker")))>>]]
    /\ UNCHANGED <<committed, overlay, auto_approve, broker, out, audit, today>>

(* risk_manager.py trigger_circuit_breaker: db.add(event); await db.flush();
   then the notification and the circuit_breaker broadcast *)
PostChecksTrigger(t) ==
    /\ task[t].pc = "post_trigger"
    /\ CanFlush(t, task[t].pend)
    /\ overlay' = [overlay EXCEPT ![t] = ApplyPend(@, task[t].pend)]
    /\ Emit(task[t].trade_id, "circuit_breaker")
    /\ task' = [task EXCEPT ![t] = [@ EXCEPT !.pc = "final_flush", !.pend = <<>>]]
    /\ UNCHANGED <<committed, auto_approve, broker, audit, today>>

(* await db.flush(); broadcast trade_executed; return execution *)
ExecFinalFlush(t) ==
    /\ task[t].pc = "final_flush"
    /\ CanFlush(t, task[t].pend)
    /\ overlay' = [overlay EXCEPT ![t] = ApplyPend(@, task[t].pend)]
    /\ Emit(task[t].trade_id, "trade_executed")
    /\ task' = [task EXCEPT ![t] = AfterProposal(t, @)]
    /\ UNCHANGED <<committed, auto_approve, broker, audit, today>>

(* `except Exception`: trade.status = "FAILED"; await db.flush(); broadcast
   trade_failed. The flush writes whatever else the session holds. *)
ExecFailFlush(t) ==
    /\ task[t].pc = "fail_flush"
    /\ CanFlush(t, task[t].pend)
    /\ LET id == task[t].trade_id
           ov == ApplyPend(overlay[t], task[t].pend)
           ex == IF task[t].exec_status = "FILLED"
                 THEN [ov EXCEPT !["executions"][ExecKey(t)] = FilledExecution(t)]
                 ELSE ov
       IN  overlay' = [overlay EXCEPT ![t] =
                [ex EXCEPT !["trade_decisions"][id] =
                    [ViewOf(ex)["trade_decisions"][id] EXCEPT
                        !.status = "FAILED", !.resolved_at = Now(t, id, "failed")]]]
    /\ Emit(task[t].trade_id, "trade_failed")
    /\ task' = [task EXCEPT ![t] = AfterProposal(t, @)]
    /\ UNCHANGED <<committed, auto_approve, broker, audit, today>>

----------------------------------------------------------------------------
(* routers/settings.py toggle_auto_approve: a request with no session *)

(* A toggle that, when it turns the flag on, also approves what waits in the
   queue: C40 must not hold with it *)
ToggleAutoApproveReleasesQueue(t) ==
    /\ ~IsPipeline(t)
    /\ task[t].pc = "idle"
    /\ \E enabled \in BOOLEAN :
        /\ set_auto_approve(enabled)
        /\ committed' = [committed EXCEPT !["trade_decisions"] =
                [id \in TradeIds |->
                    IF enabled /\ @[id] # NoRow /\ @[id].status = "PENDING"
                    THEN [@[id] EXCEPT !.status = "APPROVED", !.resolved_by = "AUTO"]
                    ELSE @[id]]]
    /\ task' = [task EXCEPT ![t] = [@ EXCEPT !.kind = "toggle", !.pc = "done"]]
    /\ UNCHANGED <<overlay, broker, out, audit, today>>

ToggleAutoApprove(t) ==
    /\ ~IsPipeline(t)
    /\ task[t].pc = "idle"
    /\ \E enabled \in BOOLEAN : set_auto_approve(enabled)
    /\ task' = [task EXCEPT ![t] = [@ EXCEPT !.kind = "toggle", !.pc = "done"]]
    /\ UNCHANGED <<committed, overlay, broker, out, audit, today>>

----------------------------------------------------------------------------

Next ==
    \E t \in Tasks :
        \/ ToggleAutoApprove(t)
        \/ PersistTradeDecisions(t)
        \/ ProcessRaise(t)
        \/ ProcessReject(t)
        \/ ProcessAutoApprove(t)
        \/ ProcessQueue(t)
        \/ PipelineFailed(t)
        \/ \E id \in TradeIds : ApproveSelect(t, id)
        \/ \E id \in TradeIds : RejectSelect(t, id)
        \/ ApproveFlush(t)
        \/ RejectFlush(t)
        \/ ExecQuoteFail(t)
        \/ ExecQuote(t)
        \/ ExecCalcQtySell(t)
        \/ ExecCalcQtyFallback(t)
        \/ ExecSkipFlush(t)
        \/ ExecSubmitFail(t)
        \/ ExecSubmit(t)
        \/ ExecShellFlush(t)
        \/ PollForFill(t)
        \/ CancelTask(t)
        \/ ExecCancelOrder(t)
        \/ ExecCancelledFlush(t)
        \/ UpdatePositionRaise(t)
        \/ UpdatePositionBuy(t)
        \/ UpdatePositionFlush(t)
        \/ UpdatePositionWash(t)
        \/ MarkRebought(t)
        \/ UpdatePositionSell(t)
        \/ RecordWashSale(t)
        \/ PostChecksRaise(t)
        \/ PostChecksPnl(t)
        \/ PostChecksBreaker(t)
        \/ PostChecksTrigger(t)
        \/ ExecFinalFlush(t)
        \/ ExecFailFlush(t)
        \/ Commit(t)
        \/ Rollback(t)

Spec == Init /\ [][Next]_vars

----------------------------------------------------------------------------
(* The same program started after a SELL of the two AAA shares at a loss: the
   position is closed and its wash-sale window is open *)

RebuyInit ==
    /\ today \in Dates
    /\ committed = [EmptyTables EXCEPT
            !["positions"][1] = SellFrom(Position("AAA", "MAIN", 500, 2), 400, 2),
            !["wash_sales"][1] = WashSale("AAA", today, Dollars(200), 2, 400, Dollars(500))]
    /\ overlay = [t \in Tasks |-> EmptyOverlay]
    /\ task = [t \in Tasks |-> IdleTask]
    /\ auto_approve = FALSE
    /\ broker = NoOrders
    /\ out = [id \in TradeIds |-> NoOut]
    /\ audit = [id \in TradeIds |-> NoAudit]

SpecRebuy == RebuyInit /\ [][Next]_vars

----------------------------------------------------------------------------
(* The risk gate on its own: check_trade against the circuit breaker events
   that trigger_circuit_breaker and resolve_circuit_breaker leave *)

(* Confidences on both sides of each sleeve's minimum and auto-approve
   threshold, sizes on both sides of the 30 percent limits and above the
   PENNY dollar ceiling, open-position
   counts on both sides of each sleeve's capacity *)
RiskConfidences ==
    {MinConfidencePenny - 1, MinConfidencePenny, MinConfidenceMain - 1,
     MinConfidenceMain, AutoApproveConfMain - 1, AutoApproveConfMain}

RiskSizes ==
    {MaxPositionPctMain - 10, MaxPositionPctMain, MaxPositionPctMain + 1, 100}

RiskProposals ==
    {Proposal("AAA", sleeve, action, confidence, size) :
        sleeve \in Sleeves, action \in {"BUY", "SELL"},
        confidence \in RiskConfidences, size \in RiskSizes}

RiskCounts ==
    {MaxPositionsPenny - 1, MaxPositionsPenny, MaxPositionsMain - 1, MaxPositionsMain}

RiskInit ==
    /\ committed = InitialTables
    /\ overlay = [t \in Tasks |-> EmptyOverlay]
    /\ task = [t \in Tasks |-> IdleTask]
    /\ auto_approve = FALSE
    /\ broker = NoOrders
    /\ out = [id \in TradeIds |-> NoOut]
    /\ audit = [id \in TradeIds |-> NoAudit]
    /\ today \in Dates

(* check_trade as process_new_decisions calls it, on arguments of any kind *)
CheckTrade(t) ==
    /\ IsPipeline(t)
    /\ task[t].pc = "idle"
    /\ \E p \in RiskProposals, count \in RiskCounts, is_new \in BOOLEAN :
        task' = [task EXCEPT ![t] =
            [IdleTask EXCEPT
                !.kind = "check", !.pc = "done",
                !.checked = Checked(p, count, is_new,
                    check_trade(View(t), p.ticker, p.action, p.sleeve, p.confidence,
                                p.position_size_pct, count, is_new))]]
    /\ UNCHANGED <<committed, overlay, auto_approve, broker, out, audit, today>>

(* risk_manager.py trigger_circuit_breaker in the session of request t, as
   _post_execution_checks of an approved SELL calls it: db.add(event); await
   db.flush(). It asks for no active event first and it does not commit. *)
trigger_circuit_breaker(t, sleeve) ==
    /\ FreeKeys("circuit_breaker_events") # {}
    /\ LET e == MinOf(FreeKeys("circuit_breaker_events"))
       IN  overlay' = [overlay EXCEPT ![t]["circuit_breaker_events"][e] =
                CircuitBreakerEvent(sleeve, Now(t, e, "breaker"))]
    /\ UNCHANGED <<committed, task, auto_approve, broker, out, audit, today>>

(* database.py get_db: the request that triggered returns and its session
   commits *)
CommitTriggered(t) ==
    /\ overlay[t] # EmptyOverlay
    /\ committed' = View(t)
    /\ overlay' = [overlay EXCEPT ![t] = EmptyOverlay]
    /\ UNCHANGED <<task, auto_approve, broker, out, audit, today>>

(* risk_manager.py resolve_circuit_breaker, committed by its caller: `if
   event:` is all it asks of the row, and an unknown id gives None (a 404 of
   the route). datetime.now() of a later call is a later time than the one
   the first call stamped. *)
resolve_circuit_breaker(event_id) ==
    /\ IF committed["circuit_breaker_events"][event_id] = NoRow
       THEN UNCHANGED committed
       ELSE committed' = [committed EXCEPT !["circuit_breaker_events"][event_id] =
                [@ EXCEPT !.is_active = FALSE,
                          !.resolved_at = Now(0, event_id,
                                IF @ = NoTime THEN "resolve" ELSE "resolve_again"),
                          !.resolved_by = "MANUAL"]]
    /\ UNCHANGED <<overlay, task, auto_approve, broker, out, audit, today>>

RiskNext ==
    \/ \E t \in Tasks : CheckTrade(t)
    \/ \E t \in Requests, sleeve \in Sleeves \cup {NoSleeve} :
            trigger_circuit_breaker(t, sleeve)
    \/ \E t \in Requests : CommitTriggered(t)
    \/ \E event_id \in EventIds : resolve_circuit_breaker(event_id)

SpecRisk == RiskInit /\ [][RiskNext]_vars

----------------------------------------------------------------------------
(* The wash-sale reads of the risk gate against the rows record_wash_sale and
   mark_rebought leave, as the days pass *)

WashDates ==
    {Date(2025, 11, 20), Date(2025, 12, 10), Date(2025, 12, 20),
     Date(2026, 1, 9), Date(2026, 1, 10), Date(2026, 1, 15)}

WashTickers == {"AAA", "BBB"}

WashProposals ==
    {Proposal(ticker, "MAIN", action, AutoApproveConfMain, MaxPositionPctMain - 10) :
        ticker \in WashTickers, action \in {"BUY", "SELL"}}

WashInit ==
    /\ committed = InitialTables
    /\ overlay = [t \in Tasks |-> EmptyOverlay]
    /\ task = [t \in Tasks |-> IdleTask]
    /\ auto_approve = FALSE
    /\ broker = NoOrders
    /\ out = [id \in TradeIds |-> NoOut]
    /\ audit = [id \in TradeIds |-> NoAudit]
    /\ today = Date(2025, 11, 20)

(* date.today() returns a later day *)
DayPasses ==
    /\ \E later \in WashDates :
            /\ later # today
            /\ DateLe(today, later)
            /\ today' = later
    /\ UNCHANGED <<committed, overlay, task, auto_approve, broker, out, audit>>

(* engine.py _update_position: a SELL that closed a position at a loss calls
   record_wash_sale with sale_date=date.today(); committed by its caller *)
LossSale(ticker) ==
    /\ FreeKeys("wash_sales") # {}
    /\ LET w == MinOf(FreeKeys("wash_sales"))
       IN  committed' = [committed EXCEPT !["wash_sales"][w] =
                WashSale(ticker, today, Dollars(200), 2, 400, Dollars(500))]
    /\ UNCHANGED <<overlay, task, auto_approve, broker, out, audit, today>>

(* A mark_rebought that takes any record of the ticker with an open window,
   not the latest sale: C34 must not hold with it *)
RebuyAnyOpen(ticker) ==
    /\ LET open == {w \in Rows(committed, "wash_sales") :
                        /\ committed["wash_sales"][w].ticker = ticker
                        /\ DateLe(today, committed["wash_sales"][w].blackout_until)
                        /\ ~committed["wash_sales"][w].rebought}
       IN  IF open = {}
           THEN UNCHANGED committed
           ELSE \E w \in open :
                    committed' = [committed EXCEPT !["wash_sales"][w] =
                        [@ EXCEPT !.rebought = TRUE,
                                  !.rebought_at = Now(0, w, "rebought")]]
    /\ UNCHANGED <<overlay, task, auto_approve, broker, out, audit, today>>

(* wash_sale_tracker.py mark_rebought after a BUY filled; committed by its
   caller. `if wash_sale:` leaves everything as it is when no window is open. *)
Rebuy(ticker) ==
    /\ LET active == get_active_wash_sale(committed, ticker)
       IN  IF active = {}
           THEN UNCHANGED committed
           ELSE \E w \in active :
                    committed' = [committed EXCEPT !["wash_sales"][w] =
                        [@ EXCEPT !.rebought = TRUE,
                                  !.rebought_at = Now(0, w, "rebought")]]
    /\ UNCHANGED <<overlay, task, auto_approve, broker, out, audit, today>>

(* check_trade on a proposal that passes the checks before the wash-sale one *)
CheckRebuy(t) ==
    /\ IsPipeline(t)
    /\ task[t].pc = "idle"
    /\ \E p \in WashProposals :
        task' = [task EXCEPT ![t] =
            [IdleTask EXCEPT
                !.kind = "check", !.pc = "done",
                !.checked = Checked(p, 1, FALSE,
                    check_trade(committed, p.ticker, p.action, p.sleeve, p.confidence,
                                p.position_size_pct, 1, FALSE))]]
    /\ UNCHANGED <<committed, overlay, auto_approve, broker, out, audit, today>>

WashNext ==
    \/ DayPasses
    \/ \E ticker \in WashTickers : LossSale(ticker)
    \/ \E ticker \in WashTickers : Rebuy(ticker)
    \/ \E t \in Tasks : CheckRebuy(t)

SpecWash == WashInit /\ [][WashNext]_vars

----------------------------------------------------------------------------
(* check_trade on every combination of its arguments and of the rows its two
   lookups read: an active circuit breaker event of either sleeve or of the
   whole system, and a December loss sale of the ticker inside or past its
   blackout *)

OrderDates == {Date(2025, 12, 20), Date(2026, 1, 15)}

OrderEvents ==
    {NoRow} \cup {CircuitBreakerEvent(sleeve, Now(1, 1, "breaker")) :
                    sleeve \in Sleeves \cup {NoSleeve}}

OrderWashSales ==
    {NoRow, WashSale("AAA", Date(2025, 12, 10), Dollars(200), 2, 400, Dollars(500))}

OrderInit ==
    /\ \E ev \in OrderEvents, ws \in OrderWashSales :
            committed = [InitialTables EXCEPT
                            !["circuit_breaker_events"][1] = ev,
                            !["wash_sales"][1] = ws]
    /\ overlay = [t \in Tasks |-> EmptyOverlay]
    /\ task = [t \in Tasks |-> IdleTask]
    /\ auto_approve = FALSE
    /\ broker = NoOrders
    /\ out = [id \in TradeIds |-> NoOut]
    /\ audit = [id \in TradeIds |-> NoAudit]
    /\ today \in OrderDates

OrderNext == \E t \in Tasks : CheckTrade(t)

SpecOrder == OrderInit /\ [][OrderNext]_vars

----------------------------------------------------------------------------
(* The order quantity and the position ledger on their own: _calculate_qty
   on sizes and prices of any kind, and _update_position applied to one fill
   after another, each run from its select to its last flush with no other
   session in between and committed by its caller *)

QtySizes == {10, 20, 22, 29, 50, 100}
QtyPrices == {110, 145, 200, 250, 333, 700, 725, 2500, 8000}
LedgerPrices == {101, 600}
LedgerQtys == {1, 2}

LedgerInit ==
    /\ committed = InitialTables
    /\ overlay = [t \in Tasks |-> EmptyOverlay]
    /\ task = [t \in Tasks |-> IdleTask]
    /\ auto_approve = FALSE
    /\ broker = NoOrders
    /\ out = [id \in TradeIds |-> NoOut]
    /\ audit = [id \in TradeIds |-> NoAudit]
    /\ today \in Dates

(* _calculate_qty for a BUY *)
CalculateQty(t) ==
    /\ IsPipeline(t)
    /\ task[t].pc = "idle"
    /\ \E sleeve \in Sleeves, size \in QtySizes, price \in QtyPrices :
        task' = [task EXCEPT ![t] =
            [IdleTask EXCEPT
                !.kind = "qty", !.pc = "done", !.current_price = price,
                !.qty = BuyQty(sleeve, size, price),
                !.checked = [NoCheck EXCEPT !.proposal =
                    Proposal("AAA", sleeve, "BUY", AutoApproveConfMain, size)]]]
    /\ UNCHANGED <<committed, overlay, auto_approve, broker, out, audit, today>>

(* _update_position, BUY, after its flush: get_active_wash_sale, the adjusted
   cost basis and mark_rebought *)
WashAdjusted(db, k) ==
    LET active == get_active_wash_sale(db, db["positions"][k].ticker)
        w == CHOOSE w \in active : TRUE
    IN  IF active = {} THEN db
        ELSE [db EXCEPT
                !["positions"][k].adjusted_cost_basis =
                    FAdd(db["positions"][k].cost_basis, db["wash_sales"][w].loss_amount),
                !["wash_sales"][w].rebought = TRUE,
                !["wash_sales"][w].rebought_at = Now(0, w, "rebought")]

(* The execution whose fill is applied: execute_trade was called once more,
   and its trade and fill are the locals of the run *)
Filled(action, filled_price, filled_qty) ==
    /\ audit[1].exec_calls < MaxFills
    /\ audit' = [audit EXCEPT ![1].exec_calls = @ + 1]
    /\ task' = [task EXCEPT ![0] =
            [IdleTask EXCEPT !.kind = "fill", !.pc = "done", !.observed = action,
                             !.filled_price = filled_price, !.qty = filled_qty]]
    /\ UNCHANGED <<overlay, auto_approve, broker, out, today>>

(* A BUY fill that always opens a new row: C24 must not hold with it *)
ApplyBuyFillNewRow(ticker, sleeve, filled_price, filled_qty) ==
    /\ Filled("BUY", filled_price, filled_qty)
    /\ FreeKeys("positions") # {}
    /\ committed' = WashAdjusted(
            [committed EXCEPT !["positions"][MinOf(FreeKeys("positions"))] =
                Position(ticker, sleeve, filled_price, filled_qty)],
            MinOf(FreeKeys("positions")))

(* _update_position for a BUY fill *)
ApplyBuyFill(ticker, sleeve, filled_price, filled_qty) ==
    /\ Filled("BUY", filled_price, filled_qty)
    /\ LET held == OpenPositionOf(committed, ticker, sleeve)
       IN  IF held # {}
           THEN \E k \in held :
                    /\ committed["positions"][k].current_qty + filled_qty <= MaxHeld
                    /\ committed' = WashAdjusted(
                            [committed EXCEPT !["positions"][k] =
                                BuyInto(@, filled_price, filled_qty)], k)
           ELSE /\ FreeKeys("positions") # {}
                /\ committed' = WashAdjusted(
                        [committed EXCEPT !["positions"][MinOf(FreeKeys("positions"))] =
                            Position(ticker, sleeve, filled_price, filled_qty)],
                        MinOf(FreeKeys("positions")))

(* The row of record_wash_sale for a SELL that closed pos at a loss *)
LossRecorded(db, pos, filled_price, filled_qty) ==
    [db EXCEPT !["wash_sales"][MinOf(FreeKeys("wash_sales"))] =
        WashSale(pos.ticker, today, FNeg(RealizedPnl(pos, filled_price, filled_qty)),
                 filled_qty, filled_price, CostPerShare(pos))]

(* A SELL fill that records a wash sale at every close, gain or loss: C27
   must not hold with it *)
ApplySellFillAnyClose(ticker, sleeve, filled_price, filled_qty) ==
    /\ Filled("SELL", filled_price, filled_qty)
    /\ LET held == OpenPositionOf(committed, ticker, sleeve)
       IN  IF held = {}
           THEN UNCHANGED committed
           ELSE \E k \in held :
                    IF ~SellFrom(committed["positions"][k], filled_price, filled_qty).is_open
                    THEN /\ FreeKeys("wash_sales") # {}
                         /\ committed' = LossRecorded(
                                [committed EXCEPT !["positions"][k] =
                                    SellFrom(@, filled_price, filled_qty)],
                                committed["positions"][k], filled_price, filled_qty)
                    ELSE committed' = [committed EXCEPT !["positions"][k] =
                                            SellFrom(@, filled_price, filled_qty)]

(* _update_position for a SELL fill *)
ApplySellFill(ticker, sleeve, filled_price, filled_qty) ==
    /\ Filled("SELL", filled_price, filled_qty)
    /\ LET held == OpenPositionOf(committed, ticker, sleeve)
       IN  IF held = {}
           THEN UNCHANGED committed
           ELSE \E k \in held :
                    IF /\ ~SellFrom(committed["positions"][k], filled_price, filled_qty).is_open
                       /\ FLt(RealizedPnl(committed["positions"][k], filled_price,
                                          filled_qty), FZero)
                    THEN /\ FreeKeys("wash_sales") # {}
                         /\ committed' = LossRecorded(
                                [committed EXCEPT !["positions"][k] =
                                    SellFrom(@, filled_price, filled_qty)],
                                committed["positions"][k], filled_price, filled_qty)
                    ELSE committed' = [committed EXCEPT !["positions"][k] =
                                            SellFrom(@, filled_price, filled_qty)]

QtyNext == \E t \in Tasks : CalculateQty(t)

SpecQty == LedgerInit /\ [][QtyNext]_vars

(* What a SELL order is for: _calculate_qty gives the whole open position *)
HeldQtys(ticker, sleeve) ==
    {committed["positions"][k].current_qty :
        k \in OpenPositionOf(committed, ticker, sleeve)}

LedgerNext ==
    \/ \E price \in LedgerPrices, qty \in LedgerQtys :
            ApplyBuyFill("AAA", "MAIN", price, qty)
    \/ \E price \in LedgerPrices, qty \in LedgerQtys \cup HeldQtys("AAA", "MAIN") :
            ApplySellFill("AAA", "MAIN", price, qty)

SpecLedger == LedgerInit /\ [][LedgerNext]_vars

----------------------------------------------------------------------------
(* execute_trade of approve_trade from the fill on, for fills whose realized
   loss lies on either side of the daily loss limit of $3.75 and on it: one
   share held at $5.00, with or without a position closed earlier at a $2.00
   loss, today or the day before *)

LossFillPrices == {124, 125, 126, 324, 325, 326, 600}

LossProposals ==
    {Proposal("AAA", sleeve, action, AutoApproveConfMain, MaxPositionPctMain - 10) :
        sleeve \in Sleeves, action \in {"BUY", "SELL"}}

LossEarlier(sleeve) ==
    LET closed == SellFrom(Position("BBB", sleeve, 500, 1), 300, 1)
    IN  {NoRow, closed, [closed EXCEPT !.closed_at = Date(2025, 6, 9)]}

(* The task of a request that approved proposal `id`, as PollForFill leaves it *)
AfterFill(id, qty, filled_price) ==
    [IdleTask EXCEPT !.kind = "approve", !.trade_id = id, !.observed = "PENDING",
                     !.wrote = TRUE, !.current_price = 400, !.qty = qty,
                     !.filled_price = filled_price, !.exec_status = "FILLED",
                     !.pc = "update_position"]

LossInit ==
    /\ today \in Dates
    /\ auto_approve = FALSE
    /\ out = [id \in TradeIds |-> NoOut]
    /\ audit = [id \in TradeIds |->
            IF id = 1 THEN [NoAudit EXCEPT !.evaluated = TRUE, !.allowed = TRUE,
                                           !.manual = TRUE, !.exec_calls = 1]
            ELSE NoAudit]
    /\ broker = [NoOrders EXCEPT !.submitted[<<1, 1>>] = 1, !.polls[<<1, 1>>] = 1,
                                  !.poll_result[<<1, 1>>] = "filled"]
    /\ \E p \in LossProposals, filled_price \in LossFillPrices, ev \in OrderEvents,
          rebuy \in BOOLEAN :
        \E earlier \in LossEarlier(p.sleeve) :
            LET qty == IF p.action = "SELL" THEN 1
                       ELSE BuyQty(p.sleeve, p.position_size_pct, 400)
            IN  /\ committed = [EmptyTables EXCEPT
                        !["trade_decisions"][1] = TradeDecision(p),
                        !["positions"][1] = Position("AAA", p.sleeve, 500, 1),
                        !["positions"][2] = earlier,
                        !["circuit_breaker_events"][1] = ev,
                        !["wash_sales"][1] =
                            IF rebuy /\ p.action = "BUY"
                            THEN WashSale("AAA", today, Dollars(200), 1, 300, Dollars(500))
                            ELSE NoRow]
                /\ overlay = [t \in Tasks |->
                        IF t = 1
                        THEN [EmptyOverlay EXCEPT
                                !["trade_decisions"][1] =
                                    [TradeDecision(p) EXCEPT
                                        !.status = "APPROVED", !.resolved_by = "MANUAL",
                                        !.resolved_at = Now(1, 1, "approve")],
                                !["executions"][<<1, 1>>] =
                                    Execution(1, p.action, qty, 400)]
                        ELSE EmptyOverlay]
                /\ task = [t \in Tasks |->
                        IF t = 1 THEN AfterFill(1, qty, filled_price) ELSE IdleTask]

LossNext ==
    \E t \in Requests :
        \/ UpdatePositionRaise(t)
        \/ UpdatePositionBuy(t)
        \/ UpdatePositionFlush(t)
        \/ UpdatePositionWash(t)
        \/ MarkRebought(t)
        \/ UpdatePositionSell(t)
        \/ RecordWashSale(t)
        \/ PostChecksRaise(t)
        \/ PostChecksPnl(t)
        \/ PostChecksBreaker(t)
        \/ PostChecksTrigger(t)
        \/ ExecFinalFlush(t)
        \/ ExecFailFlush(t)
        \/ Commit(t)

SpecLoss == LossInit /\ [][LossNext]_vars

----------------------------------------------------------------------------
(* Two approve_trade requests, each in its own session, whose SELL orders have
   both filled: request 1 sells the AAA share of MAIN, request 2 the BBB share
   of either sleeve, each at a loss above or below the daily limit *)

SellsFillPrices == {100, 400}

(* The session of request t after approve_trade and the execution shell *)
ApprovedSession(t, p) ==
    [EmptyOverlay EXCEPT
        !["trade_decisions"][t] =
            [TradeDecision(p) EXCEPT !.status = "APPROVED", !.resolved_by = "MANUAL",
                                     !.resolved_at = Now(t, t, "approve")],
        !["executions"][<<t, t>>] = Execution(t, p.action, 1, 400)]

SellsInit ==
    /\ today \in Dates
    /\ auto_approve = FALSE
    /\ out = [id \in TradeIds |-> NoOut]
    /\ audit = [id \in TradeIds |->
            [NoAudit EXCEPT !.evaluated = TRUE, !.allowed = TRUE,
                            !.manual = TRUE, !.exec_calls = 1]]
    /\ broker = [NoOrders EXCEPT
            !.submitted = [e \in ExecIds |-> IF e[1] = e[2] THEN 1 ELSE 0],
            !.polls = [e \in ExecIds |-> IF e[1] = e[2] THEN 1 ELSE 0],
            !.poll_result = [e \in ExecIds |-> IF e[1] = e[2] THEN "filled" ELSE "none"]]
    /\ \E sleeve \in Sleeves, price1, price2 \in SellsFillPrices :
        LET p1 == Proposal("AAA", "MAIN", "SELL", AutoApproveConfMain, MaxPositionPctMain - 10)
            p2 == Proposal("BBB", sleeve, "SELL", AutoApproveConfMain, MaxPositionPctMain - 10)
        IN  /\ committed = [EmptyTables EXCEPT
                    !["trade_decisions"][1] = TradeDecision(p1),
                    !["trade_decisions"][2] = TradeDecision(p2),
                    !["positions"][1] = Position("AAA", "MAIN", 500, 1),
                    !["positions"][2] = Position("BBB", sleeve, 500, 1)]
            /\ overlay = [t \in Tasks |->
                    IF t = 1 THEN ApprovedSession(1, p1)
                    ELSE IF t = 2 THEN ApprovedSession(2, p2)
                    ELSE EmptyOverlay]
            /\ task = [t \in Tasks |->
                    IF t = 1 THEN AfterFill(1, 1, price1)
                    ELSE IF t = 2 THEN AfterFill(2, 1, price2)
                    ELSE IdleTask]

SellsNext ==
    \E t \in Requests :
        \/ UpdatePositionRaise(t)
        \/ UpdatePositionSell(t)
        \/ RecordWashSale(t)
        \/ PostChecksRaise(t)
        \/ PostChecksPnl(t)
        \/ PostChecksBreaker(t)
        \/ PostChecksTrigger(t)
        \/ ExecFinalFlush(t)
        \/ ExecFailFlush(t)
        \/ Commit(t)

SpecSells == SellsInit /\ [][SellsNext]_vars

----------------------------------------------------------------------------
(* Properties *)

(* C1: the committed status of a proposal changes only along the edges
   PENDING -> REJECTED | APPROVED, APPROVED -> EXECUTED | FAILED | SKIPPED (or
   along two of them when one transaction makes both): REJECTED, EXECUTED,
   FAILED and SKIPPED never change, and nothing goes back to PENDING. *)
C1_StatusEdges ==
    [][\A id \in TradeIds :
        LET before == ObservedStatus(committed["trade_decisions"][id])
            after == ObservedStatus(committed'["trade_decisions"][id])
            final == {"EXECUTED", "FAILED", "SKIPPED"}
        IN  \/ before = after
            \/ before = "NOTFOUND"
            \/ before = "PENDING" /\ after \in {"REJECTED", "APPROVED"} \cup final
            \/ before = "APPROVED" /\ after \in final]_vars

(* C2: for every proposal at most one market order is submitted to the broker
   and at most one Execution is created, whatever calls run concurrently. *)
C2_OneOrder ==
    \A id \in TradeIds :
        /\ \A t \in Tasks : broker.submitted[<<t, id>>] <= 1
        /\ Cardinality({t \in Tasks : broker.submitted[<<t, id>>] > 0}) <= 1
        /\ Cardinality({t \in Tasks :
                \/ committed["executions"][<<t, id>>] # NoRow
                \/ overlay[t]["executions"][<<t, id>>] # Unset}) <= 1

(* C3: of two concurrent reject_trade calls on a PENDING proposal exactly one
   writes the transition; the other writes nothing. *)
C3_OneRejectWrites ==
    \A id \in TradeIds :
        Cardinality({t \in Requests : /\ task[t].kind = "reject"
                                      /\ task[t].trade_id = id
                                      /\ task[t].wrote}) <= 1

(* C4: approve_trade and reject_trade that find the proposal not PENDING return
   it and write nothing, and approve_trade does not enter execute_trade; on an
   unknown id they return None and write nothing. *)
C4_NonPendingNoop ==
    \A t \in Requests :
        (/\ task[t].kind \in {"approve", "reject"}
         /\ task[t].observed \in {"APPROVED", "REJECTED", "EXECUTED", "FAILED",
                                   "SKIPPED", "NOTFOUND"}) =>
            /\ ~task[t].wrote
            /\ task[t].pc \in {"commit", "done"}
            /\ overlay[t] = EmptyOverlay
            /\ \A id \in TradeIds : broker.submitted[<<t, id>>] = 0
            /\ task[t].result = IF task[t].observed = "NOTFOUND" THEN "None" ELSE "trade"

C4_Witness ==
    \E t, u \in Requests :
        /\ task[t].kind = "approve" /\ task[t].observed = "REJECTED"
        /\ task[t].pc = "done"
        /\ task[u].kind = "reject" /\ task[u].observed = "NOTFOUND"
        /\ task[u].pc = "done"

(* C5: a proposal the risk gate allows is set APPROVED by AUTO and handed to
   execute_trade exactly once if and only if the auto-approve flag is on and no
   manual approval is required; otherwise process_new_decisions leaves it
   PENDING, submits no order, and emits one notification and one trade_pending
   event. *)
C5_AutoApproveIff ==
    \A id \in TradeIds :
        (audit[id].evaluated /\ audit[id].allowed) =>
            LET row == Latest("trade_decisions", id)
            IN  IF audit[id].auto /\ ~audit[id].manual
                THEN /\ audit[id].exec_calls = 1
                     /\ out[id].notify = 0 /\ out[id].trade_pending = 0
                     /\ row # NoRow =>
                            /\ row.resolved_by = "AUTO"
                            /\ row.status \in {"APPROVED", "EXECUTED", "FAILED", "SKIPPED"}
                ELSE /\ broker.submitted[<<0, id>>] = 0
                     /\ out[id].notify = 1 /\ out[id].trade_pending = 1
                     /\ row # NoRow =>
                            /\ row.resolved_by # "AUTO"
                            /\ overlay[0]["trade_decisions"][id] # Unset =>
                                    row.status = "PENDING"

C5_Witness ==
    \E i, j \in TradeIds :
        /\ audit[i].allowed /\ audit[i].auto /\ ~audit[i].manual
        /\ broker.submitted[<<0, i>>] = 1
        /\ audit[j].allowed /\ audit[j].auto /\ audit[j].manual
        /\ out[j].notify = 1
        /\ committed["trade_decisions"][j] # NoRow
        /\ committed["trade_decisions"][j].status = "PENDING"

(* C6: no order is submitted for a proposal that the risk gate has not
   evaluated and allowed. *)
C6_OrderOnlyAfterAllowed ==
    \A e \in ExecIds :
        broker.submitted[e] > 0 => (audit[e[2]].evaluated /\ audit[e[2]].allowed)

(* C7: no error raised while one proposal of a batch is handled leaves
   process_new_decisions. *)
C7_BatchSurvives ==
    \A t \in Tasks : IsPipeline(t) => task[t].pc \notin {"pipeline_failed", "raised"}

(* C8: when the poll times out it has made at most timeout / interval status
   queries, exactly one cancel request is issued, the Execution is marked
   CANCELLED and the proposal FAILED, whether the cancel succeeded or not. *)
C8_TimeoutCancelsOnce ==
    \A e \in ExecIds :
        broker.poll_result[e] = "timeout" =>
            LET t == e[1]
                id == e[2]
                here == task[t].trade_id = id
            IN  /\ broker.polls[e] * _POLL_INTERVAL_SEC <= _POLL_TIMEOUT_SEC
                /\ IF here /\ task[t].pc = "cancel_order"
                   THEN broker.cancels[e] = 0
                   ELSE /\ broker.cancels[e] = 1
                        /\ IF here /\ task[t].pc = "cancelled_flush"
                           THEN task[t].exec_status = "CANCELLED"
                           ELSE /\ overlay[t]["executions"][e] # Unset =>
                                    /\ overlay[t]["executions"][e].status = "CANCELLED"
                                    /\ View(t)["trade_decisions"][id].status = "FAILED"
                                /\ committed["executions"][e] # NoRow =>
                                    committed["executions"][e].status = "CANCELLED"

C8_Witness ==
    \E e \in ExecIds :
        /\ broker.poll_result[e] = "timeout"
        /\ broker.polls[e] * _POLL_INTERVAL_SEC = _POLL_TIMEOUT_SEC
        /\ broker.cancels[e] = 1
        /\ broker.cancel_ok[e] = "no"
        /\ committed["executions"][e] # NoRow
        /\ committed["executions"][e].status = "CANCELLED"
        /\ committed["trade_decisions"][e[2]].status = "FAILED"

(* C9: once execute_trade has ended, the Execution it created as PENDING is
   FILLED, CANCELLED or FAILED. *)
C9_NoExecutionLeftPending ==
    \A t \in Tasks :
        (/\ task[t].pc \in {"commit", "done", "process", "raised", "cancelled",
                            "pipeline_failed"}
         /\ task[t].exec_status # "none")
            => task[t].exec_status \in {"FILLED", "CANCELLED", "FAILED"}

(* C10: check_trade denies, for the circuit breaker, every proposal that passed
   the earlier checks while an active event of the proposal's sleeve or of no
   sleeve exists, BUY and SELL alike, and never for the circuit breaker when
   no active event covers the sleeve. *)
C10_BreakerDenies ==
    [][\A t \in Tasks :
        (task'[t] # task[t] /\ task'[t].kind = "check") =>
            LET c == task'[t].checked
                p == c.proposal
                events == committed["circuit_breaker_events"]
                covered == \E e \in EventIds :
                                /\ events[e] # NoRow
                                /\ events[e].is_active
                                /\ events[e].sleeve \in {p.sleeve, NoSleeve}
                passed == /\ ~ConfidenceGate(p.sleeve, p.confidence)
                          /\ ~SizeLimit(p.action, p.sleeve, p.position_size_pct)
                          /\ ~CapacityLimit(p.action, p.sleeve, c.current_positions_count)
            IN  passed =>
                    IF covered
                    THEN ~c.risk.allowed /\ c.risk.blocked_reason = "circuit_breaker"
                    ELSE c.risk.blocked_reason # "circuit_breaker"]_vars

C10_Witness ==
    \E t \in Tasks :
        LET events == committed["circuit_breaker_events"]
        IN  /\ task[t].kind = "check"
            /\ task[t].checked.proposal.action = "SELL"
            /\ task[t].checked.risk.blocked_reason = "circuit_breaker"
            /\ \E e \in EventIds : /\ events[e] # NoRow
                                   /\ events[e].is_active
                                   /\ events[e].sleeve = NoSleeve
            /\ \A e \in EventIds :
                    (events[e] # NoRow /\ events[e].is_active) =>
                        events[e].sleeve = NoSleeve

(* C11: a proposal whose confidence is below its sleeve's minimum is denied,
   for the confidence, whatever its direction, size, position count and the
   circuit breaker events; a confidence equal to the minimum is not denied
   for the confidence. *)
C11_ConfidenceGate ==
    [][\A t \in Tasks :
        (task'[t] # task[t] /\ task'[t].kind = "check") =>
            LET c == task'[t].checked
                p == c.proposal
                minimum == IF p.sleeve = "PENNY" THEN MinConfidencePenny
                                                ELSE MinConfidenceMain
            IN  IF p.confidence < minimum
                THEN ~c.risk.allowed /\ c.risk.blocked_reason = "confidence"
                ELSE c.risk.blocked_reason # "confidence"]_vars

C11_Witness ==
    \E t \in Tasks :
        /\ task[t].kind = "check"
        /\ task[t].checked.proposal.sleeve = "MAIN"
        /\ task[t].checked.proposal.action = "SELL"
        /\ task[t].checked.proposal.confidence = MinConfidenceMain - 1
        /\ task[t].checked.risk.blocked_reason = "confidence"
        /\ ~task[t].checked.risk.allowed

(* C12: every BUY whose size exceeds its sleeve's hard maximum is denied: more
   than max_position_pct_main of MAIN, or a share of PENNY worth more than
   max_position_dollars_penny; a SELL is never denied for its size. *)
C12_OversizeBuyDenied ==
    [][\A t \in Tasks :
        (task'[t] # task[t] /\ task'[t].kind = "check") =>
            LET c == task'[t].checked
                p == c.proposal
                oversize ==
                    IF p.sleeve = "MAIN"
                    THEN p.position_size_pct > MaxPositionPctMain
                    ELSE p.position_size_pct * PennySleeveAllocation
                            > MaxPositionDollarsPenny * 100
            IN  /\ (p.action = "BUY" /\ oversize) => ~c.risk.allowed
                /\ p.action = "SELL" => c.risk.blocked_reason # "position_size"]_vars

(* C13: a BUY is denied whenever the sleeve's open-position count has reached
   its capacity (8 MAIN, 5 PENNY), also a BUY of an instrument already held,
   and for the capacity when the confidence and size checks let it through;
   a SELL is never denied for the capacity. *)
C13_CapacityDenies ==
    [][\A t \in Tasks :
        (task'[t] # task[t] /\ task'[t].kind = "check") =>
            LET c == task'[t].checked
                p == c.proposal
                capacity == IF p.sleeve = "PENNY" THEN MaxPositionsPenny
                                                 ELSE MaxPositionsMain
                full == c.current_positions_count >= capacity
            IN  /\ (p.action = "BUY" /\ full) =>
                        /\ ~c.risk.allowed
                        /\ c.risk.blocked_reason
                                \in {"confidence", "position_size", "capacity"}
                /\ (p.action = "BUY" /\ ~full) => c.risk.blocked_reason # "capacity"
                /\ p.action = "SELL" => c.risk.blocked_reason # "capacity"]_vars

C13_Witness ==
    \E t \in Tasks :
        /\ task[t].kind = "check"
        /\ task[t].checked.proposal.action = "BUY"
        /\ task[t].checked.proposal.sleeve = "MAIN"
        /\ ~task[t].checked.is_new_ticker
        /\ task[t].checked.current_positions_count = MaxPositionsMain
        /\ task[t].checked.risk.blocked_reason = "capacity"
        /\ ~task[t].checked.risk.allowed

(* C17: a proposal that passes the deny checks, BUY or SELL, requires manual
   review exactly when the instrument was never held in the sleeve, or its
   size is above 30 percent, or its confidence is below the auto-approve
   threshold (0.70 MAIN, 0.60 PENNY), and none of the three denies it; the
   auto-approve threshold is not below the sleeve's minimum confidence. *)
C17_ManualIff ==
    [][\A t \in Tasks :
        (task'[t] # task[t] /\ task'[t].kind = "check") =>
            LET c == task'[t].checked
                p == c.proposal
                threshold == IF p.sleeve = "MAIN" THEN AutoApproveConfMain
                                                 ELSE AutoApproveConfPenny
                minimum == IF p.sleeve = "PENNY" THEN MinConfidencePenny
                                                ELSE MinConfidenceMain
            IN  /\ threshold >= minimum
                /\ c.risk.allowed =>
                        (c.risk.requires_manual_approval <=>
                            \/ c.is_new_ticker
                            \/ p.position_size_pct > ManualSizePct
                            \/ p.confidence < threshold)]_vars

(* C14: a BUY that passed the earlier checks is denied for the wash sale
   exactly when some WashSale row of its instrument is year-end blocked, not
   rebought, and has its blackout date on or after the day of the check; an
   expired or a rebought row alone never blocks; a SELL is neither denied nor
   flagged for any wash-sale rows. *)
C14_HardBlockIff ==
    [][\A t \in Tasks :
        (task'[t] # task[t] /\ task'[t].kind = "check") =>
            LET c == task'[t].checked
                p == c.proposal
                rows == committed["wash_sales"]
                blocking == \E w \in WashIds :
                                /\ rows[w] # NoRow
                                /\ rows[w].ticker = p.ticker
                                /\ rows[w].is_year_end_blocked
                                /\ ~rows[w].rebought
                                /\ DateLe(today, rows[w].blackout_until)
                passed == c.risk.blocked_reason \notin
                            {"confidence", "position_size", "capacity",
                             "circuit_breaker"}
            IN  passed =>
                    IF p.action = "BUY"
                    THEN IF blocking
                         THEN ~c.risk.allowed /\ c.risk.blocked_reason = "wash_sale"
                         ELSE c.risk.allowed
                    ELSE /\ c.risk.allowed
                         /\ ~c.risk.wash_sale_flag]_vars

C14_Witness ==
    \E t \in Tasks :
        LET rows == committed["wash_sales"]
            p == task[t].checked.proposal
        IN  /\ task[t].kind = "check"
            /\ p.action = "BUY"
            /\ task[t].checked.risk.allowed
            /\ today = Date(2025, 12, 20)
            /\ \E w \in WashIds : /\ rows[w] # NoRow
                                  /\ rows[w].ticker = p.ticker
                                  /\ rows[w].is_year_end_blocked
                                  /\ rows[w].rebought
                                  /\ rows[w].rebought_at = Now(0, w, "rebought")

(* C15: every WashSale row has its blackout date 30 calendar days after its
   sale date and is year-end blocked exactly when the sale was in December;
   a loss sale of 2025-12-10 has the blackout date 2026-01-09, a BUY of the
   instrument on 2025-12-20 is denied for the wash sale, and the same BUY on
   2026-01-15 is allowed. *)
C15_ThirtyDayWindow ==
    [][/\ \A w \in WashIds :
            LET ws == committed'["wash_sales"][w]
            IN  ws # NoRow =>
                    /\ ws.blackout_until = AddDays(ws.sale_date, 30)
                    /\ ws.is_year_end_blocked <=> (ws.sale_date.m = 12)
                    /\ ws.sale_date = Date(2025, 12, 10) =>
                            ws.blackout_until = Date(2026, 1, 9)
       /\ \A t \in Tasks :
            (task'[t] # task[t] /\ task'[t].kind = "check") =>
                LET c == task'[t].checked
                    p == c.proposal
                    rows == committed["wash_sales"]
                    mine == {w \in WashIds : /\ rows[w] # NoRow
                                             /\ rows[w].ticker = p.ticker}
                    december10 == {w \in mine :
                                    /\ rows[w].sale_date = Date(2025, 12, 10)
                                    /\ ~rows[w].rebought}
                IN  (p.action = "BUY" /\ december10 # {}) =>
                        /\ today = Date(2025, 12, 20) =>
                                /\ ~c.risk.allowed
                                /\ c.risk.blocked_reason = "wash_sale"
                        /\ (today = Date(2026, 1, 15) /\ mine = december10) =>
                                c.risk.allowed]_vars

C15_Witness ==
    \E t \in Tasks :
        LET rows == committed["wash_sales"]
            p == task[t].checked.proposal
        IN  /\ task[t].kind = "check"
            /\ p.action = "BUY"
            /\ task[t].checked.risk.allowed
            /\ today = Date(2026, 1, 15)
            /\ \E w \in WashIds : /\ rows[w] # NoRow
                                  /\ rows[w].ticker = p.ticker
                                  /\ rows[w].sale_date = Date(2025, 12, 10)
                                  /\ rows[w].blackout_until = Date(2026, 1, 9)
                                  /\ rows[w].is_year_end_blocked
                                  /\ ~rows[w].rebought

(* C16: a BUY that passes the other checks while a not-rebought, not year-end
   blocked wash-sale window of its instrument is open is allowed and its
   proposal is flagged; when execute_trade writes EXECUTED on a flagged BUY,
   the open position of the instrument has an adjusted cost basis equal to
   its cost basis plus the disallowed loss of a window of the instrument that
   is marked rebought. *)
C16_FlaggedRebuyAdjusts ==
    [][/\ \A t \in Tasks :
            LET id == task[t].trade_id
            IN  (AtPending(t) /\ audit'[id].evaluated /\ ~audit[id].evaluated) =>
                    LET db == View(t)
                        trade == db["trade_decisions"][id]
                        rows == db["wash_sales"]
                        open == {w \in WashIds :
                                    /\ rows[w] # NoRow
                                    /\ rows[w].ticker = trade.ticker
                                    /\ ~rows[w].rebought
                                    /\ DateLe(today, rows[w].blackout_until)}
                        passes ==
                            /\ ~ConfidenceGate(trade.sleeve, trade.confidence)
                            /\ ~SizeLimit(trade.action, trade.sleeve,
                                          trade.position_size_pct)
                            /\ ~CapacityLimit(trade.action, trade.sleeve,
                                    Cardinality(OpenPositions(db, trade.sleeve)))
                            /\ ~BreakerGate(db, trade.sleeve)
                    IN  (/\ trade.action = "BUY"
                         /\ passes
                         /\ open # {}
                         /\ \A w \in open : ~rows[w].is_year_end_blocked) =>
                            /\ audit'[id].allowed
                            /\ ViewOf(overlay'[t])["trade_decisions"][id].wash_sale_flagged
       /\ \A t \in Tasks :
            LET id == task[t].trade_id
                after == View(t)'
            IN  (/\ task[t].pc = "final_flush"
                 /\ task'[t].pc # "final_flush"
                 /\ after["trade_decisions"][id].status = "EXECUTED"
                 /\ after["trade_decisions"][id].action = "BUY"
                 /\ after["trade_decisions"][id].wash_sale_flagged) =>
                    LET row == after["trade_decisions"][id]
                        positions == after["positions"]
                        windows == after["wash_sales"]
                    IN  \A k \in PosIds :
                            (/\ positions[k] # NoRow
                             /\ positions[k].is_open
                             /\ positions[k].ticker = row.ticker
                             /\ positions[k].sleeve = row.sleeve) =>
                                \E w \in WashIds :
                                    /\ windows[w] # NoRow
                                    /\ windows[w].ticker = row.ticker
                                    /\ windows[w].rebought
                                    /\ positions[k].adjusted_cost_basis =
                                            FAdd(positions[k].cost_basis,
                                                 windows[w].loss_amount)]_vars

(* C18: a proposal the risk gate denied is REJECTED, resolved by AUTO, with a
   resolution time and with the reason of the denial stored on its row, and
   nothing else happens for it: no order, no Execution row, no notification
   for manual review. *)
C18_DeniedStops ==
    \A id \in TradeIds :
        LET row == Latest("trade_decisions", id)
        IN  (audit[id].evaluated /\ ~audit[id].allowed /\ row # NoRow) =>
                /\ row.status = "REJECTED"
                /\ row.resolved_by = "AUTO"
                /\ row.resolved_at # NoTime
                /\ row.reasoning \in {"confidence", "position_size", "capacity",
                                      "circuit_breaker", "wash_sale"}
                /\ \A t \in Tasks :
                        /\ broker.submitted[<<t, id>>] = 0
                        /\ Latest("executions", <<t, id>>) = NoRow
                /\ out[id].notify = 0
                /\ out[id].trade_pending = 0

(* C19: every proposal in a terminal status (REJECTED, EXECUTED, FAILED,
   SKIPPED) has a reason stored on its row and exactly one event emitted
   for it. *)
C19_TerminalHasReasonAndEvent ==
    \A id \in TradeIds :
        LET row == committed["trade_decisions"][id]
        IN  (row # NoRow /\ row.status \in {"REJECTED", "EXECUTED", "FAILED", "SKIPPED"}) =>
                /\ row.reasoning # "rationale"
                /\ out[id].trade_executed + out[id].trade_failed = 1

(* C20: when the quote gives execute_trade no usable positive price, it goes
   to its failure handler and nowhere else, and the handler resolves the
   proposal to FAILED with no order submitted, no Execution row and no
   Position row added or changed. *)
C20_NoPriceFails ==
    [][\A t \in Tasks :
        LET id == task[t].trade_id
            before == View(t)
            after == View(t)'
        IN  /\ (/\ task[t].pc = "quote"
                 /\ task'[t].pc # "quote"
                 /\ task'[t].current_price <= 0) =>
                    /\ task'[t].pc = "fail_flush"
                    /\ broker' = broker
                    /\ after = before
            /\ task'[t].pc \in {"calc_qty_sell", "calc_qty_fallback", "skip_flush",
                               "submit", "shell_flush", "poll"} =>
                    task'[t].current_price > 0
            /\ (/\ task[t].pc = "fail_flush"
                 /\ task[t].current_price <= 0
                 /\ task'[t].pc # "fail_flush") =>
                    /\ after["trade_decisions"][id].status = "FAILED"
                    /\ broker' = broker
                    /\ broker.submitted[<<t, id>>] = 0
                    /\ after["executions"][<<t, id>>] = NoRow
                    /\ after["executions"] = before["executions"]
                    /\ after["positions"] = before["positions"]]_vars

C20_Witness ==
    \E t \in Tasks :
        /\ task[t].pc = "fail_flush"
        /\ task[t].current_price = 0
        /\ task[t].qty = 0
        /\ View(t)["trade_decisions"][task[t].trade_id].status = "APPROVED"
        /\ View(t)["trade_decisions"][task[t].trade_id].action = "SELL"
        /\ broker.submitted[<<t, task[t].trade_id>>] = 0
        /\ View(t)["executions"][<<t, task[t].trade_id>>] = NoRow

(* C21: a computed order quantity of zero or less resolves the proposal to
   SKIPPED and not to FAILED: no order is submitted, no Execution row is
   written and no Position row is added or changed; an order is submitted
   only for a positive quantity. *)
C21_ZeroQtySkipped ==
    [][\A t \in Tasks :
        LET id == task[t].trade_id
            before == View(t)
            after == View(t)'
        IN  /\ (/\ task[t].pc \in {"quote", "calc_qty_sell", "calc_qty_fallback"}
                 /\ task'[t].pc \in {"submit", "skip_flush"}) =>
                    /\ (task'[t].pc = "skip_flush") = (task'[t].qty <= 0)
                    /\ broker' = broker
                    /\ after = before
            /\ (/\ task[t].pc = "skip_flush"
                 /\ task'[t].pc # "skip_flush") =>
                    /\ task[t].qty <= 0
                    /\ after["trade_decisions"][id].status = "SKIPPED"
                    /\ after["trade_decisions"][id].resolved_at # NoTime
                    /\ broker' = broker
                    /\ broker.submitted[<<t, id>>] = 0
                    /\ after["executions"][<<t, id>>] = NoRow
                    /\ after["executions"] = before["executions"]
                    /\ after["positions"] = before["positions"]
                    /\ after["wash_sales"] = before["wash_sales"]]_vars

C21_Witness ==
    \E t \in Tasks :
        /\ task[t].pc = "skip_flush"
        /\ task[t].qty = 0
        /\ task[t].current_price > 0
        /\ View(t)["trade_decisions"][task[t].trade_id].status = "APPROVED"
        /\ broker.submitted[<<t, task[t].trade_id>>] = 0
        /\ View(t)["executions"][<<t, task[t].trade_id>>] = NoRow

(* C22: for a BUY the order quantity is floor(D / price), with D the size
   percentage of the sleeve's allocation, capped at max_position_dollars_penny
   for PENNY only, and it is never negative.  In cents: D is
   position_size_pct * allocation / 100 and the cap binds when that exceeds
   the cap, so the quotient is taken of whole numbers. *)
C22_QtyIsFloor ==
    \A t \in Tasks :
        task[t].kind = "qty" =>
            LET p == task[t].checked.proposal
                D == p.position_size_pct * SleeveEquity(p.sleeve)
                capped == IF p.sleeve = "PENNY" /\ D > 100 * MaxPositionDollarsPenny
                          THEN 100 * MaxPositionDollarsPenny ELSE D
            IN  /\ task[t].qty = capped \div (100 * task[t].current_price)
                /\ task[t].qty >= 0

(* C23: for a SELL the order quantity is the whole quantity of the open
   ledger position of the ticker in the sleeve; the broker's position list is
   asked only when the ledger has no open row of positive quantity for that
   key, and when the list has no entry for the ticker, or asking raises, the
   quantity is 0. *)
C23_SellQtyFromLedger ==
    [][\A t \in Tasks :
        LET db == View(t)
            trade == db["trade_decisions"][task[t].trade_id]
            held == {k \in Rows(db, "positions") :
                        /\ db["positions"][k].ticker = trade.ticker
                        /\ db["positions"][k].sleeve = trade.sleeve
                        /\ db["positions"][k].is_open
                        /\ db["positions"][k].current_qty > 0}
            answer == task'[t].alpaca
            matches == {i \in 1..Len(answer.positions) :
                            answer.positions[i].ticker = trade.ticker}
        IN  /\ (task[t].pc = "calc_qty_sell" /\ task'[t].pc # "calc_qty_sell") =>
                    /\ trade.action = "SELL"
                    /\ IF held # {}
                       THEN /\ task'[t].pc = "submit"
                            /\ \E k \in held : task'[t].qty = db["positions"][k].current_qty
                       ELSE task'[t].pc = "calc_qty_fallback"
            /\ (task[t].pc # "calc_qty_fallback" /\ task'[t].pc = "calc_qty_fallback") =>
                    task[t].pc = "calc_qty_sell" /\ held = {}
            /\ (answer # task[t].alpaca /\ answer # NoAnswer) =>
                    task[t].pc = "calc_qty_fallback"
            /\ (task[t].pc = "calc_qty_fallback" /\ task'[t].pc # "calc_qty_fallback") =>
                    IF answer.raised \/ matches = {}
                    THEN task'[t].qty = 0 /\ task'[t].pc = "skip_flush"
                    ELSE task'[t].qty = answer.positions[MinOf(matches)].qty]_vars

C23_Witness ==
    \E t \in Tasks :
        /\ task[t].pc = "submit"
        /\ TradeOf(t).action = "SELL"
        /\ task[t].alpaca = NoAnswer
        /\ \E k \in OpenPositionOf(View(t), TradeOf(t).ticker, TradeOf(t).sleeve) :
                /\ View(t)["positions"][k].current_qty = 2
                /\ task[t].qty = 2

C23_FallbackWitness ==
    \E t \in Tasks :
        /\ task[t].pc = "skip_flush"
        /\ TradeOf(t).action = "SELL"
        /\ task[t].alpaca.raised
        /\ task[t].qty = 0

(* C24: after every fill of a sequence applied one at a time, each position
   row has a quantity and a cost basis that are not negative and no two open
   rows share a (ticker, sleeve) pair; a BUY on a pair that has an open row
   averages into that row and adds no row, and a BUY on a pair whose rows are
   all closed adds one open row. *)
C24_LedgerInvariant ==
    [][LET before == committed["positions"]
           after == committed'["positions"]
           fill == task'[0]
           open == {k \in PosIds : before[k] # NoRow /\ before[k].is_open}
           added == {k \in PosIds : before[k] = NoRow /\ after[k] # NoRow}
       IN  /\ \A k \in PosIds :
                after[k] # NoRow =>
                    after[k].current_qty >= 0 /\ ~FLt(after[k].cost_basis, FZero)
           /\ \A j, k \in PosIds :
                (/\ after[j] # NoRow /\ after[k] # NoRow
                 /\ after[j].is_open /\ after[k].is_open
                 /\ after[j].ticker = after[k].ticker
                 /\ after[j].sleeve = after[k].sleeve) => j = k
           /\ (fill.kind = "fill" /\ fill.observed = "BUY") =>
                IF open # {}
                THEN /\ added = {}
                     /\ \A k \in open :
                            /\ after[k].is_open
                            /\ after[k].current_qty = before[k].current_qty + fill.qty
                ELSE \E k \in PosIds :
                        /\ added = {k}
                        /\ after[k].is_open
                        /\ after[k].current_qty = fill.qty]_vars

C24_Witness ==
    /\ task[0].kind = "fill"
    /\ task[0].observed = "BUY"
    /\ committed["positions"][1] # NoRow
    /\ ~committed["positions"][1].is_open
    /\ committed["positions"][2] # NoRow
    /\ committed["positions"][2].is_open
    /\ committed["positions"][2].current_qty = 3

(* The quantities of a set of execution rows, added up *)
RECURSIVE QtySum(_, _)
QtySum(execs, es) ==
    IF es = {} THEN 0
    ELSE LET e == CHOOSE x \in es : TRUE
         IN  execs[e].qty + QtySum(execs, es \ {e})

(* C25, first half: no two open position rows share a (ticker, sleeve) pair,
   also when the BUYs that opened them ran concurrently. *)
C25_OneOpenRow ==
    \A j, k \in PosIds :
        (/\ committed["positions"][j] # NoRow /\ committed["positions"][k] # NoRow
         /\ committed["positions"][j].is_open /\ committed["positions"][k].is_open
         /\ committed["positions"][j].ticker = committed["positions"][k].ticker
         /\ committed["positions"][j].sleeve = committed["positions"][k].sleeve) => j = k

(* C25: fills on one (ticker, sleeve) pair applied by executions that run
   concurrently end as if applied one after the other: no two open rows for
   the pair, and no fill lost, so that while only BUYs have filled, each the
   one fill of a trade that ended EXECUTED, the open row holds the shares
   held at the start plus the shares of every filled BUY. *)
C25_FillsSerialized ==
    LET execs == committed["executions"]
        filled == {e \in ExecIds : execs[e] # NoRow /\ execs[e].status = "FILLED"}
        open == {k \in PosIds : /\ committed["positions"][k] # NoRow
                                /\ committed["positions"][k].is_open}
    IN  /\ C25_OneOpenRow
        /\ (/\ filled # {}
            /\ \A e, f \in filled : e[2] = f[2] => e = f
            /\ \A e \in filled :
                    /\ execs[e].side = "BUY"
                    /\ committed["trade_decisions"][e[2]].status = "EXECUTED") =>
                \E k \in open :
                    committed["positions"][k].current_qty =
                        InitialTables["positions"][1].current_qty + QtySum(execs, filled)

(* C26: a BUY fill of q shares at price p on an open position adds q * p to
   the cost basis and q to the quantity, so that the cost basis and the
   quantity after two BUY fills do not depend on the order in which the two
   are applied. *)
C26_BuyOrderIndependent ==
    \A k \in PosIds :
        (committed["positions"][k] # NoRow /\ committed["positions"][k].is_open) =>
            \A p1, p2 \in LedgerPrices, q1, q2 \in LedgerQtys :
                /\ BuyInto(BuyInto(committed["positions"][k], p1, q1), p2, q2).cost_basis
                    = BuyInto(BuyInto(committed["positions"][k], p2, q2), p1, q1).cost_basis
                /\ BuyInto(BuyInto(committed["positions"][k], p1, q1), p2, q2).current_qty
                    = BuyInto(BuyInto(committed["positions"][k], p2, q2), p1, q1).current_qty

(* C27: a SELL fill that takes the position's quantity to zero closes the
   position, stamps as realized_pnl the proceeds qty * price less the cost of
   the shares sold, qty * (cost_basis / old quantity), in doubles as all
   amounts are, and adds a WashSale row if and only if that P&L is negative,
   with its absolute value as the loss amount; a SELL fill that leaves shares keeps the
   position open, takes the sold shares' part off the cost basis, stamps no
   realized P&L and adds no WashSale row. *)
C27_SellClosesOrReduces ==
    [][LET fill == task'[0]
           open == {k \in PosIds : /\ committed["positions"][k] # NoRow
                                   /\ committed["positions"][k].is_open}
           added == {w \in WashIds : /\ committed["wash_sales"][w] = NoRow
                                     /\ committed'["wash_sales"][w] # NoRow}
       IN  (fill.kind = "fill" /\ fill.observed = "SELL") =>
            \A k \in open :
                LET pos == committed["positions"][k]
                    sold == committed'["positions"][k]
                    per_share == FDiv(pos.cost_basis, Float(pos.current_qty))
                    pnl == FSub(FMul(Dollars(fill.filled_price), Float(fill.qty)),
                                FMul(per_share, Float(fill.qty)))
                IN  IF pos.current_qty - fill.qty <= 0
                    THEN /\ ~sold.is_open
                         /\ sold.current_qty = 0
                         /\ sold.realized_pnl = pnl
                         /\ IF FLt(pnl, FZero)
                            THEN \E w \in WashIds :
                                    /\ added = {w}
                                    /\ committed'["wash_sales"][w].ticker = pos.ticker
                                    /\ committed'["wash_sales"][w].loss_amount = FNeg(pnl)
                            ELSE added = {}
                    ELSE /\ sold.is_open
                         /\ sold.current_qty = pos.current_qty - fill.qty
                         /\ sold.cost_basis =
                                FSub(pos.cost_basis, FMul(per_share, Float(fill.qty)))
                         /\ sold.realized_pnl = pos.realized_pnl
                         /\ sold.realized_pnl = NoVal
                         /\ added = {}]_vars

C27_Witness ==
    /\ task[0].kind = "fill"
    /\ task[0].observed = "SELL"
    /\ \E k \in PosIds, w \in WashIds :
        /\ committed["positions"][k] # NoRow
        /\ ~committed["positions"][k].is_open
        /\ FLt(committed["positions"][k].realized_pnl, FZero)
        /\ committed["wash_sales"][w] # NoRow
        /\ committed["wash_sales"][w].loss_amount =
                FNeg(committed["positions"][k].realized_pnl)

(* C28: resolve_circuit_breaker on an event that is already resolved changes
   nothing: is_active, resolved_at and resolved_by stay as the first
   resolution left them. *)
C28_ResolveIdempotent ==
    [][\A e \in EventIds :
        LET before == committed["circuit_breaker_events"][e]
            after == committed'["circuit_breaker_events"][e]
        IN  (before # NoRow /\ ~before.is_active) =>
                /\ after # NoRow
                /\ after.is_active = before.is_active
                /\ after.resolved_at = before.resolved_at
                /\ after.resolved_by = before.resolved_by]_vars

(* C29: once trigger_circuit_breaker has returned, every read of the circuit
   breaker for a sleeve its event covers finds it active, so every proposal
   of that sleeve checked afterwards is denied until the event is resolved. *)
C29_TriggerSeenAtOnce ==
    [][\A t \in Tasks :
        (task'[t] # task[t] /\ task'[t].kind = "check") =>
            LET p == task'[t].checked.proposal
                triggered == \E u \in Tasks, e \in EventIds :
                                LET ev == ViewOf(overlay[u])["circuit_breaker_events"][e]
                                IN  /\ ev # NoRow
                                    /\ ev.is_active
                                    /\ ev.sleeve \in {p.sleeve, NoSleeve}
            IN  triggered => ~task'[t].checked.risk.allowed]_vars

(* C30: check_trade asks confidence, position size (BUY), capacity (BUY),
   circuit breaker and wash-sale hard block (BUY) in this order and stops at
   the first that fails: the result of a proposal that violates several of
   them is the bare denial of the earliest one, whatever the rows of the later
   lookups are, and a proposal that violates none is allowed *)
C30_CheckOrder ==
    \A t \in Tasks :
        (task[t].kind = "check" /\ task[t].pc = "done") =>
            LET c == task[t].checked
                p == c.proposal
                events == committed["circuit_breaker_events"]
                washes == committed["wash_sales"]
                lowConfidence ==
                    p.confidence < (IF p.sleeve = "PENNY" THEN MinConfidencePenny
                                                          ELSE MinConfidenceMain)
                tooLarge ==
                    /\ p.action = "BUY"
                    /\ p.sleeve = "MAIN"
                    /\ p.position_size_pct > MaxPositionPctMain
                full ==
                    /\ p.action = "BUY"
                    /\ c.current_positions_count >= (IF p.sleeve = "PENNY" THEN MaxPositionsPenny
                                                          ELSE MaxPositionsMain)
                halted ==
                    \E e \in EventIds :
                        /\ events[e] # NoRow
                        /\ events[e].is_active
                        /\ events[e].sleeve \in {p.sleeve, NoSleeve}
                blocked ==
                    /\ p.action = "BUY"
                    /\ \E w \in Keys("wash_sales") :
                            /\ washes[w] # NoRow
                            /\ washes[w].ticker = p.ticker
                            /\ washes[w].is_year_end_blocked
                            /\ DateLe(today, washes[w].blackout_until)
                            /\ ~washes[w].rebought
            IN  IF lowConfidence THEN c.risk = Denied("confidence")
                ELSE IF tooLarge THEN c.risk = Denied("position_size")
                ELSE IF full THEN c.risk = Denied("capacity")
                ELSE IF halted THEN c.risk = Denied("circuit_breaker")
                ELSE IF blocked THEN c.risk = Denied("wash_sale")
                ELSE c.risk.allowed

(* A BUY below the minimum confidence, over the size limit, in a full sleeve,
   with the breaker active and the ticker hard-blocked, was denied for its
   confidence *)
C30_Witness ==
    \E t \in Tasks :
        /\ task[t].kind = "check"
        /\ task[t].pc = "done"
        /\ LET c == task[t].checked
               p == c.proposal
           IN  /\ p.action = "BUY"
               /\ p.sleeve = "MAIN"
               /\ p.confidence < MinConfidenceMain
               /\ p.position_size_pct > MaxPositionPctMain
               /\ c.current_positions_count >= MaxPositionsMain
               /\ committed["circuit_breaker_events"][1] # NoRow
               /\ committed["wash_sales"][1] # NoRow
               /\ DateLe(today, committed["wash_sales"][1].blackout_until)
               /\ c.risk = Denied("confidence")

(* C31: when a status query answers that the broker ended the order as
   rejected, expired or cancelled, that query is the last one of the order;
   execute_trade then marks the Execution CANCELLED or FAILED and the
   proposal FAILED, emits one trade_failed event and changes no Position. *)
C31_EndedOrderFails ==
    [][\A t \in Tasks :
        LET id == task[t].trade_id
            e == <<t, id>>
            before == View(t)
            after == View(t)'
            ended == {"cancelled", "expired", "rejected"}
        IN  /\ (task[t].pc = "poll" /\ broker'.poll_result[e] = "ended") =>
                    /\ \E script \in PollScripts :
                            /\ Response(script, broker'.polls[e]) \in ended
                            /\ \A i \in 1..(broker'.polls[e] - 1) :
                                    Response(script, i) \notin ended \cup {"filled"}
                    /\ task'[t].pc = "cancel_order"
                    /\ after = before
            /\ (id \in TradeIds /\ broker.poll_result[e] = "ended") =>
                    /\ broker'.polls[e] = broker.polls[e]
                    /\ broker'.poll_result[e] = "ended"
                    /\ (task[t].pc = "cancel_order" /\ task'[t] # task[t]) =>
                            /\ task'[t].pc = "cancelled_flush"
                            /\ after = before
                    /\ (task[t].pc = "cancelled_flush" /\ task'[t] # task[t]) =>
                            /\ after["executions"][e].status \in {"CANCELLED", "FAILED"}
                            /\ after["trade_decisions"][id].status = "FAILED"
                            /\ out'[id].trade_failed = out[id].trade_failed + 1
                            /\ out'[id].trade_executed = out[id].trade_executed
                            /\ after["positions"] = before["positions"]
                            /\ after["wash_sales"] = before["wash_sales"]]_vars

(* The first status query of an order answered cancelled; the Execution is
   CANCELLED and the proposal FAILED, committed, with the position as it was *)
C31_Witness ==
    \E e \in ExecIds :
        /\ broker.poll_result[e] = "ended"
        /\ broker.polls[e] = 1
        /\ committed["executions"][e] # NoRow
        /\ committed["executions"][e].status = "CANCELLED"
        /\ committed["trade_decisions"][e[2]].status = "FAILED"
        /\ out[e[2]].trade_failed = 1
        /\ committed["positions"] = InitialTables["positions"]

(* C32: when approve_trade has executed a proposal whose order filled, the
   Execution is FILLED with slippage = filled price - intended price, the
   proposal is EXECUTED, and its session wrote exactly one Position row, the
   one of the proposal's ticker and sleeve. *)
C32_FillMutatesOnePosition ==
    \A t \in Requests :
        LET id == task[t].trade_id
            e == <<t, id>>
            db == View(t)
            touched == {k \in PosIds : overlay[t]["positions"][k] # Unset}
        IN  (/\ task[t].pc = "commit"
             /\ task[t].result = "trade"
             /\ broker.poll_result[e] = "filled"
             /\ db["trade_decisions"][id].status = "EXECUTED") =>
                /\ db["executions"][e].status = "FILLED"
                /\ db["executions"][e].slippage =
                        db["executions"][e].filled_price - db["executions"][e].intended_price
                /\ Cardinality(touched) = 1
                /\ \A k \in touched :
                        /\ db["positions"][k].ticker = db["trade_decisions"][id].ticker
                        /\ db["positions"][k].sleeve = db["trade_decisions"][id].sleeve

(* C33: a BUY fill never adds a circuit breaker event. After a SELL fill the
   check adds one active event of the proposal's sleeve exactly when the
   realized P&L of the sleeve's positions closed today is strictly below
   minus (sleeve allocation x daily loss limit pct / 100) and no active event
   of the sleeve or of the whole system exists; a loss equal to the limit adds
   none. *)
C33_BreakerAfterSellOnly ==
    [][\A t \in Requests :
        LET id == task[t].trade_id
            before == View(t)
            after == View(t)'
            trade == before["trade_decisions"][id]
            closedToday == {k \in PosIds :
                                /\ after["positions"][k] # NoRow
                                /\ after["positions"][k].sleeve = trade.sleeve
                                /\ ~after["positions"][k].is_open
                                /\ after["positions"][k].realized_pnl # NoVal
                                /\ after["positions"][k].closed_at = today}
            limit == FMul(Dollars(IF trade.sleeve = "PENNY" THEN PennySleeveAllocation
                                                             ELSE MainSleeveAllocation),
                          FDiv(Float(IF trade.sleeve = "PENNY" THEN DailyLossLimitPennyPct
                                                                ELSE DailyLossLimitMainPct),
                               Float(100)))
            covered == \E e \in EventIds :
                            /\ before["circuit_breaker_events"][e] # NoRow
                            /\ before["circuit_breaker_events"][e].is_active
                            /\ before["circuit_breaker_events"][e].sleeve
                                    \in {trade.sleeve, NoSleeve}
            added == {e \in EventIds :
                            before["circuit_breaker_events"][e]
                                # after["circuit_breaker_events"][e]}
        IN  (task'[t] # task[t] /\ id \in TradeIds) =>
                /\ trade.action = "BUY" => added = {}
                /\ task[t].pc # "post_trigger" => added = {}
                /\ (task[t].pc = "post_pnl" /\ task'[t].pc # "fail_flush") =>
                        (task'[t].pc = "post_breaker"
                            <=> FLt(FSum(after, closedToday), FNeg(limit)))
                /\ task[t].pc = "post_breaker" =>
                        (task'[t].pc = "post_trigger" <=> ~covered)
                /\ task'[t].pc \in {"post_pnl", "post_breaker", "post_trigger"} =>
                        trade.action = "SELL"
                /\ task[t].pc = "post_trigger" =>
                        /\ Cardinality(added) = 1
                        /\ \A e \in added :
                                /\ before["circuit_breaker_events"][e] = NoRow
                                /\ after["circuit_breaker_events"][e].is_active
                                /\ after["circuit_breaker_events"][e].sleeve = trade.sleeve]_vars

(* A SELL closed the position at a loss that makes today's realized P&L equal
   to minus the limit, with no event active, and ended with no event added *)
C33_Witness ==
    \E t \in Requests :
        LET db == View(t)
            trade == db["trade_decisions"][1]
        IN  /\ task[t].pc = "commit"
            /\ trade.action = "SELL"
            /\ trade.status = "EXECUTED"
            /\ get_today_realized_pnl(db, trade.sleeve) = FNeg(LossLimit(trade.sleeve))
            /\ \A e \in EventIds : db["circuit_breaker_events"][e] = NoRow

(* C34: a WashSale record, once written, is never deleted and none of the
   columns of the sale changes; each loss sale adds one record of its own,
   not rebought; the rebought flag of a record is set at most once and
   never cleared; mark_rebought sets it on one record only, a record of the
   ticker that is not rebought, whose blackout ends today or later and whose
   sale date is the latest among such records, and changes nothing when the
   ticker has no such record. *)
C34_WashSalesKeptAndMarkedOnce ==
    [][LET before == committed["wash_sales"]
           after == committed'["wash_sales"]
           open == {w \in WashIds : /\ before[w] # NoRow
                                     /\ ~before[w].rebought
                                     /\ DateLe(today, before[w].blackout_until)}
           added == {w \in WashIds : before[w] = NoRow /\ after[w] # NoRow}
           marked == {w \in WashIds : before[w] # NoRow /\ after[w] # before[w]}
       IN  /\ \A w \in WashIds :
                before[w] # NoRow =>
                    /\ after[w] # NoRow
                    /\ [after[w] EXCEPT !.rebought = before[w].rebought,
                                        !.rebought_at = before[w].rebought_at] = before[w]
                    /\ before[w].rebought => after[w] = before[w]
           /\ Cardinality(added) <= 1
           /\ \A w \in added :
                /\ ~after[w].rebought
                /\ after[w].rebought_at = NoTime
                /\ FLt(FZero, after[w].loss_amount)
                /\ after[w].sale_date = today
                /\ marked = {}
           /\ Cardinality(marked) <= 1
           /\ \A w \in marked :
                /\ w \in open
                /\ after[w].rebought
                /\ \A v \in open :
                        before[v].ticker = before[w].ticker =>
                            DateLe(before[v].sale_date, before[w].sale_date)]_vars

(* Two loss sales of a ticker on different days are on record with their
   windows open, and only the later one is marked rebought *)
C34_Witness ==
    \E v, w \in WashIds :
        LET rows == committed["wash_sales"]
        IN  /\ rows[v] # NoRow
            /\ rows[w] # NoRow
            /\ rows[v].ticker = rows[w].ticker
            /\ rows[v].sale_date # rows[w].sale_date
            /\ DateLe(rows[v].sale_date, rows[w].sale_date)
            /\ DateLe(today, rows[v].blackout_until)
            /\ ~rows[v].rebought
            /\ rows[w].rebought

(* C35: at every moment at most one circuit breaker event is active for each
   scope (a sleeve, or the whole system), however the executions of
   loss-making SELL fills interleave. *)
C35_OneActivePerScope ==
    \A scope \in Sleeves \cup {NoSleeve} :
        Cardinality({e \in EventIds :
                        /\ committed["circuit_breaker_events"][e] # NoRow
                        /\ committed["circuit_breaker_events"][e].is_active
                        /\ committed["circuit_breaker_events"][e].sleeve = scope}) <= 1

(* C36: while a committed circuit breaker event of a proposal's sleeve or of
   the whole system is active, no order of that proposal is submitted to the
   broker, by process_new_decisions or by approve_trade. *)
C36_NoOrderWhileBreaker ==
    [][\A t \in Tasks :
        LET id == task[t].trade_id
            events == committed["circuit_breaker_events"]
        IN  (/\ id \in TradeIds
             /\ broker'.submitted[<<t, id>>] > broker.submitted[<<t, id>>]) =>
                ~\E e \in EventIds :
                    /\ events[e] # NoRow
                    /\ events[e].is_active
                    /\ events[e].sleeve \in {View(t)["trade_decisions"][id].sleeve, NoSleeve}]_vars

(* C37: in what the sessions have committed, a proposal is EXECUTED if and
   only if an Execution of it is FILLED: a FILLED Execution never stands
   beside a FAILED proposal, and no proposal is EXECUTED without a FILLED
   Execution. *)
C37_ExecutedIffFilled ==
    /\ \A e \in ExecIds :
            (/\ committed["executions"][e] # NoRow
             /\ committed["executions"][e].status = "FILLED") =>
                committed["trade_decisions"][e[2]].status = "EXECUTED"
    /\ \A id \in TradeIds :
            (/\ committed["trade_decisions"][id] # NoRow
             /\ committed["trade_decisions"][id].status = "EXECUTED") =>
                \E t \in Tasks :
                    /\ committed["executions"][<<t, id>>] # NoRow
                    /\ committed["executions"][<<t, id>>].status = "FILLED"

(* C38: cancel_order is called at most once for an order, only for an order
   that was submitted and whose poll ended without a fill, and never for an
   order whose poll returned the fill. *)
C38_CancelAtMostOnce ==
    \A e \in ExecIds :
        /\ broker.cancels[e] <= 1
        /\ broker.poll_result[e] = "filled" => broker.cancels[e] = 0
        /\ broker.cancels[e] > 0 =>
                /\ broker.submitted[e] = 1
                /\ broker.poll_result[e] \in {"timeout", "ended"}

(* One order was cancelled once after its poll timed out, and another order,
   whose poll returned the fill, was never cancelled and is FILLED *)
C38_Witness ==
    \E e, f \in ExecIds :
        /\ broker.poll_result[e] = "timeout"
        /\ broker.cancels[e] = 1
        /\ broker.poll_result[f] = "filled"
        /\ broker.cancels[f] = 0
        /\ committed["executions"][f] # NoRow
        /\ committed["executions"][f].status = "FILLED"

(* C39: when a SELL fills and the ledger holds no open Position of the
   proposal's ticker and sleeve, _update_position writes nothing: up to the
   return of execute_trade no Position row is added or changed (so no
   realized P&L is recorded) and no WashSale row is added, while the
   Execution is FILLED and the proposal EXECUTED. *)
C39_SellWithoutPositionWritesNothing ==
    [][\A t \in Tasks :
        LET id == task[t].trade_id
            before == View(t)
            after == View(t)'
            trade == before["trade_decisions"][id]
            none == \A k \in PosIds :
                        before["positions"][k] # NoRow =>
                            \/ ~before["positions"][k].is_open
                            \/ before["positions"][k].ticker # trade.ticker
                            \/ before["positions"][k].sleeve # trade.sleeve
            quiet == \A i \in 1..Len(task[t].pend) :
                        task[t].pend[i].tbl \notin {"positions", "wash_sales"}
        IN  (id \in TradeIds /\ task'[t] # task[t]) =>
                /\ (/\ task[t].pc = "update_position"
                     /\ trade.action = "SELL"
                     /\ none
                     /\ task'[t].pc # "fail_flush") =>
                        /\ task'[t].pc = "post_pnl"
                        /\ task'[t].pend = <<>>
                        /\ after["positions"] = before["positions"]
                        /\ after["wash_sales"] = before["wash_sales"]
                        /\ after["executions"][<<t, id>>].status = "FILLED"
                        /\ after["trade_decisions"][id].status = "EXECUTED"
                /\ (/\ task[t].pc \in {"post_pnl", "post_breaker", "post_trigger",
                                        "final_flush"}
                     /\ trade.action = "SELL"
                     /\ quiet
                     /\ task'[t].pc # "fail_flush") =>
                        /\ after["positions"] = before["positions"]
                        /\ after["wash_sales"] = before["wash_sales"]
                        /\ after["executions"][<<t, id>>].status = "FILLED"
                        /\ after["trade_decisions"][id].status = "EXECUTED"
                        /\ task[t].pc = "final_flush" =>
                                out'[id].trade_executed = out[id].trade_executed + 1]_vars

(* approve_trade of a SELL returned with the Execution FILLED and the proposal
   EXECUTED, and its session wrote no Position and no WashSale row *)
C39_Witness ==
    \E t \in Requests :
        LET id == task[t].trade_id
        IN  /\ task[t].pc = "commit"
            /\ task[t].result = "trade"
            /\ broker.poll_result[<<t, id>>] = "filled"
            /\ View(t)["trade_decisions"][id].action = "SELL"
            /\ View(t)["trade_decisions"][id].status = "EXECUTED"
            /\ View(t)["executions"][<<t, id>>].status = "FILLED"
            /\ \A k \in PosIds : overlay[t]["positions"][k] = Unset
            /\ \A w \in WashIds : overlay[t]["wash_sales"][w] = Unset

(* C40: a toggle of the auto-approve flag changes the flag and nothing else:
   no row of any table, no order, no event; a proposal process_new_decisions
   left PENDING leaves PENDING only by the write of an approve_trade or a
   reject_trade request; and every evaluation of process_new_decisions uses
   the value the flag has when it is made, so one that starts after a toggle
   uses the new value. *)
C40_ToggleChangesOnlyFlag ==
    [][/\ \A t \in Tasks :
            (task[t].kind # "toggle" /\ task'[t].kind = "toggle") =>
                /\ committed' = committed
                /\ overlay' = overlay
                /\ broker' = broker
                /\ out' = out
                /\ audit' = audit
       /\ auto_approve' # auto_approve =>
                \E t \in Requests : task[t].kind # "toggle" /\ task'[t].kind = "toggle"
       /\ \A t \in Tasks, id \in TradeIds :
            LET row == View(t)["trade_decisions"][id]
                written == overlay'[t]["trade_decisions"][id]
            IN  /\ (/\ audit[id].evaluated
                     /\ row # NoRow
                     /\ row.status = "PENDING"
                     /\ written # overlay[t]["trade_decisions"][id]
                     /\ written # Unset
                     /\ written.status # "PENDING") =>
                        /\ t \in Requests
                        /\ task[t].kind \in {"approve", "reject"}
                        /\ task[t].trade_id = id
                        /\ written.resolved_by = "MANUAL"
                /\ (IsPipeline(t) /\ ~audit[id].evaluated /\ audit'[id].evaluated) =>
                        /\ audit'[id].auto = auto_approve
                        /\ (written # Unset /\ written.status = "APPROVED") =>
                                auto_approve /\ written.resolved_by = "AUTO"
                        /\ (auto_approve /\ audit'[id].allowed /\ ~audit'[id].manual) =>
                                (written # Unset /\ written.status = "APPROVED")]_vars

(* The flag is on; a proposal evaluated while it was off still waits PENDING,
   and a proposal evaluated after the toggle was approved by AUTO *)
C40_Witness ==
    \E id, later \in TradeIds :
        /\ auto_approve
        /\ audit[id].evaluated
        /\ audit[id].allowed
        /\ ~audit[id].manual
        /\ ~audit[id].auto
        /\ committed["trade_decisions"][id] # NoRow
        /\ committed["trade_decisions"][id].status = "PENDING"
        /\ audit[later].evaluated
        /\ audit[later].auto
        /\ committed["trade_decisions"][later] # NoRow
        /\ committed["trade_decisions"][later].resolved_by = "AUTO"
        /\ committed["trade_decisions"][later].status # "REJECTED"

=============================================================================
